---- MODULE Spec2Model ----
(***************************************************************************)
(* Model of the asynchronous client of zteradb-python: the connection pool *)
(* (ZTeraDBConnectionManager), the facade (ZTeraDBConnectionAsync.run),    *)
(* the session (ZTeraDBClientProtocol / ZTeraDBTCPProtocol) with its       *)
(* handshake and its streaming query-response loop.                        *)
(*                                                                         *)
(* asyncio is cooperative: a task runs without interleaving between two    *)
(* awaits that really suspend (open_connection, a framed read, drain,      *)
(* wait_closed).  asyncio.Queue.get on a non-empty queue and put on an     *)
(* unbounded queue do not suspend.  Each action below is one such          *)
(* uninterrupted piece of a coroutine.                                     *)
(*                                                                         *)
(* The server is the environment.  The frame a read returns is chosen when *)
(* the read completes; stream[s] records, per session, the responses that  *)
(* the server still owes (or has already put) on the connection, oldest    *)
(* first, so that frames left unread by one query are what the next read   *)
(* on that session gets.                                                   *)
(***************************************************************************)
EXTENDS Integers, Sequences, FiniteSets, TLC

\* ---- bounds ----
NumCallers == 2         \* concurrent tasks that call run() once each
MinConnections == 1     \* options.connection_pool.min of the configuration
MaxConnections == 1     \* options.connection_pool.max of the configuration
MaxFrames == 2          \* frames the server sends for one query before its terminal frame

Callers == 1..NumCallers
PrewarmTask == NumCallers + 1
Sessions == 1..(NumCallers + MinConnections)

\* ---- program constants ----
None == 0
QUERY_DATA == 7
QUERY_COMPLETE == 1544
QUERY_ERROR == 9
CONNECTED == 2

\* the configuration: the secret key, and connect_timeout is set (without it
\* the handshake reads have no time limit at all)
secret_key == "s"
connect_timeout == TRUE
Nonces == {"n1", "n2"}

\* the query argument of run(): a ZTeraDBQuery by its ZTeraDBQueryType, and
\* two arguments that are not a ZTeraDBQuery: one without an is_select_query
\* attribute, one that has it (False) but is still no ZTeraDBQuery.
\* "INSERT" stands for the three kinds INSERT, UPDATE and DELETE: run() and
\* execute_query() tell them apart nowhere (is_select_query is False and
\* generate() succeeds for each)
QueryKinds == {"INSERT", "SELECT", "NONE"}
QueryArgs == QueryKinds \cup {"NotQuery", "Duck"}

isinstance_ZTeraDBQuery(q) == q \in QueryKinds

\* a variant that takes every query with a kind for a select
is_select_query_any_kind(q) == q \in {"SELECT", "INSERT"}

is_select_query(q) == q = "SELECT"

\* ZTeraDBQuery.generate raises ZTeraDBQueryError when no kind was set
generate_raises(q) == q = "NONE"

\* ---- JSON values carried in the data member ----
\* "{}" is the empty object, the rows and "creds" are non-empty objects,
\* "msg1" is a string.  The n-th data frame of a response carries Rows[n], so
\* that what a caller was given tells which frames it was given, in which order
Rows == <<"row1", "row2", "row3", "row4">>
DictData == {"{}", "creds"} \cup {Rows[i] : i \in 1..Len(Rows)}
Truthy(d) == d # "{}"
IsDict(d) == d \in DictData

\* sha256(secret_key || nonce).hexdigest(), taken as collision free
Hash(secret, nonce) == <<secret, nonce>>

NoAuth == [nonce |-> "", request_token |-> <<"", "">>]

\* DataManager read from the wire.  typ "json": a JSON object with the four
\* members; "nondict": valid JSON that is no object; "garbage": bytes that
\* json.loads/decode reject; "none": read() returned None.
Frame(t, e, rc, ca, d, q) ==
    [typ |-> t, error |-> e, response_code |-> rc, client_auth |-> ca, data |-> d, q |-> q]

NoFrame == Frame("none", FALSE, None, NoAuth, "{}", None)

\* client_auth of a handshake response: the proof for either nonce, a token
\* made with another secret, a token made for another nonce, or none at all
Auths == {NoAuth} \cup
         {[nonce |-> n, request_token |-> Hash(secret_key, n)] : n \in Nonces} \cup
         {[nonce |-> "n1", request_token |-> Hash("x", "n1")],
          [nonce |-> "n1", request_token |-> Hash(secret_key, "n2")]}

\* what the server may answer to CONNECT: success or error with credentials
\* as data, an error with a text as data, or bytes that are no JSON object
HandshakeFrames ==
    {Frame("json", FALSE, CONNECTED, ca, "creds", None) : ca \in Auths}
    \cup {Frame("json", TRUE, CONNECTED, ca, "creds", None) : ca \in {NoAuth, [nonce |-> "n1", request_token |-> Hash(secret_key, "n1")]}}
    \cup {Frame("json", e, CONNECTED, NoAuth, "msg1", None) : e \in BOOLEAN}
    \cup {Frame("garbage", FALSE, None, NoAuth, "{}", None),
          Frame("nondict", FALSE, None, NoAuth, "{}", None)}

\* the server sends two frames for a handshake: the response and a terminator
HandshakeFramesSent == 2

\* the terminator: a frame that belongs to no query
HandshakeTerminator == Frame("json", FALSE, CONNECTED, NoAuth, "{}", None)

DataFrames(h) == {Frame("json", FALSE, QUERY_DATA, NoAuth, d, h.q) : d \in {Rows[h.n + 1], "{}"}}
CompleteFrame(h) == Frame("json", FALSE, QUERY_COMPLETE, NoAuth, "{}", h.q)
ErrorFrame(h) == Frame("json", TRUE, QUERY_ERROR, NoAuth, "msg1", h.q)
BadFrame(h) == Frame("garbage", FALSE, None, NoAuth, "{}", h.q)

\* the frames the server may send next for the response h = [q, n], of which
\* n frames were sent: after MaxFrames frames only a terminal one
QueryFrames(h) ==
    {CompleteFrame(h), ErrorFrame(h)} \cup
    (IF h.n < MaxFrames THEN DataFrames(h) \cup {BadFrame(h)} ELSE {})

\* ---- pure functions of the session ----
generate_request_token(secret, nonce) == Hash(secret, nonce)

\* a variant that accepts any token made with the secret, whatever nonce
\* the response names
is_valid_request_token_any_nonce(auth) ==
    \E n \in Nonces : auth.request_token = generate_request_token(secret_key, n)

is_valid_request_token(auth) ==
    auth.request_token = generate_request_token(secret_key, auth.nonce)

\* ZTeraDBClientProtocol.is_valid_server_auth_response: a ZTeraDBClientAuth
\* is made of the client_auth of the response and the secret key of the
\* configuration, and asked for is_valid_request_token
is_valid_server_auth_response(client_auth) == is_valid_request_token(client_auth)

\* what connect() does with the handshake response it read:
\* "ready" adopts the credentials, "auth_failed" raises AuthenticationFailed
\* (which connect() itself swallows), "raise" leaves connect() as ZTeraBaseError
connect_verdict(resp) ==
    IF resp.typ # "json" THEN "raise"
    ELSE IF ~IsDict(resp.data) THEN "raise"
    ELSE IF resp.error THEN "auth_failed"
    ELSE IF resp.client_auth = NoAuth THEN "raise"
    ELSE IF is_valid_server_auth_response(resp.client_auth) THEN "ready"
    ELSE "auth_failed"

\* a variant that tests the response code against QUERY_DATA, so that a data
\* frame ends the stream
parse_query_response_data_wrong_code(resp) ==
    IF resp.typ = "none" THEN "nodata"
    ELSE IF resp.typ = "garbage" THEN "decode"
    ELSE IF resp.typ = "nondict" THEN "invalid"
    ELSE IF resp.error THEN "error"
    ELSE IF resp.response_code = QUERY_DATA THEN "complete"
    ELSE IF Truthy(resp.data) THEN "yield"
    ELSE "nodata"

\* a variant that looks at data before it looks at error
parse_query_response_data_data_first(resp) ==
    IF resp.typ = "none" THEN "nodata"
    ELSE IF resp.typ = "garbage" THEN "decode"
    ELSE IF resp.typ = "nondict" THEN "invalid"
    ELSE IF resp.response_code = QUERY_COMPLETE THEN "complete"
    ELSE IF Truthy(resp.data) THEN "yield"
    ELSE IF resp.error THEN "error"
    ELSE "nodata"

\* parse_query_response_data: "yield" returns data; "error" raises
\* ZTeraBaseError(data); "complete" raises QueryComplete; "nodata" raises
\* NoResponseDataError; "decode" is the exception of from_json; "invalid" is
\* ZTeraBaseError for a non-object
parse_query_response_data(resp) ==
    IF resp.typ = "none" THEN "nodata"
    ELSE IF resp.typ = "garbage" THEN "decode"
    ELSE IF resp.typ = "nondict" THEN "invalid"
    ELSE IF resp.error THEN "error"
    ELSE IF resp.response_code = QUERY_COMPLETE THEN "complete"
    ELSE IF Truthy(resp.data) THEN "yield"
    ELSE "nodata"

VARIABLES
    sess,             \* session objects: fields of ZTeraDBClientProtocol and the position of its connect()
    stream,           \* per session: the server's responses on the connection, oldest first
    connections,      \* ZTeraDBConnectionManager._connections (asyncio.Queue)
    nsess,            \* number of ZTeraDBClientProtocol objects constructed
    pw,               \* the task _async_init -> create_min_connections
    caller,           \* the tasks that call run(): position, locals and what they observed
    closing,          \* the task that calls ZTeraDBConnectionManager.close()
    wire,             \* framing: a byte stream, the frame written to it and what read() made of it
    qb,               \* query builder: a ZTeraDBQuery object and the outcome of the last call on it
    cond,             \* filter conditions: the ZTeraDBFilterCondition made last and the call that made it
    config,           \* configuration: the config dictionary given and what became of it
    handshake         \* authentication: the CONNECT requests made and the responses judged

poolvars == <<sess, stream, connections, nsess, pw, caller>>

\* the variables of the framing, of the query builder, of the filter
\* conditions, of the configuration and of the authentication, which the
\* pool never touches
purevars == <<wire, qb, cond, config, handshake>>

vars == <<poolvars, closing, purevars>>


\* ZTeraDBClientProtocol.__init__: _is_connected starts True, no server_auth,
\* reader/writer not yet assigned.  pending: the frames the server sends for
\* the handshake (its response and the terminator) that are not read yet
NewSession(o) ==
    [phase |-> "open", is_connected |-> TRUE, server_auth |-> "None", writer |-> "unset",
     owner |-> o, result |-> "pending", verified |-> FALSE, pending |-> 0]

Unborn == [NewSession(None) EXCEPT !.phase = "none"]

\* a session object that get_new_connection did not return: nothing refers
\* to it any more
Dropped == [NewSession(None) EXCEPT !.phase = "dropped", !.result = "none"]

\* pc: position of the task in run()/execute_query; conn, query,
\* query_timeout: locals and arguments of run().  History of the call: got
\* (what each read() of the loop returned, NoFrame for None), yielded (what
\* the generator yielded), outcome and errmsg (how run() or the iteration
\* ended), rel (the arguments of the release_connection calls made), fault
\* ("short" when a read of the loop hit a short read, "send" when send()
\* of the request failed)
CallerInit ==
    [pc |-> "idle", conn |-> None, query |-> "NONE", query_timeout |-> FALSE,
     got |-> <<>>, yielded |-> <<>>, outcome |-> "none", errmsg |-> "", rel |-> <<>>,
     fault |-> "none"]

\* close() of the pool has not been called
ClosingInit == [pc |-> "idle", cur |-> None, taken |-> {}, left |-> <<>>]

\* no byte stream and no query object are looked at
WireIdle == [pc |-> "none"]

QbIdle == [pc |-> "none"]

CondIdle == [pc |-> "none"]

ConfigIdle == [pc |-> "none"]

HandshakeIdle == [pc |-> "none"]

PoolInit ==
    /\ sess = [s \in Sessions |-> Unborn]
    /\ stream = [s \in Sessions |-> <<>>]
    /\ connections = <<>>
    /\ nsess = 0
    /\ pw = [pc |-> "init", tasks |-> <<>>]
    /\ caller = [c \in Callers |-> CallerInit]
    /\ closing = ClosingInit

Init ==
    /\ PoolInit
    /\ wire = WireIdle
    /\ qb = QbIdle
    /\ cond = CondIdle
    /\ config = ConfigIdle
    /\ handshake = HandshakeIdle

\* a variant that shuts the writer down whenever there is one
close_shuts_writer_again(rec) == rec.writer # "unset"

\* ZTeraDBTCPProtocol.close calls writer.close(): only on a session that is
\* still connected and has a writer
close_shuts_writer(rec) == rec.is_connected /\ rec.writer # "unset"

\* ZTeraDBTCPProtocol.close: only a session that is still connected shuts
\* its writer down; afterwards _is_connected is False.  Nothing is left to
\* read from a stream that is shut
close(rec) ==
    [rec EXCEPT !.is_connected = FALSE,
                !.writer = IF close_shuts_writer(rec) THEN "closed" ELSE @,
                !.pending = IF rec.is_connected THEN 0 ELSE @]

\* asyncio.wait_for cancels the pending read().  CancelledError is an
\* Exception on Python 3.7 (read() catches it and closes the session) and a
\* BaseException from 3.8 on (read() lets it pass and nothing is closed);
\* setup.py admits both, so the outcome is a choice
cancel_read(rec, caught) == IF caught THEN close(rec) ELSE rec

\* ---- the pool ----

\* a variant that puts whatever it is given, None too
release_connection_puts_none(fifo, connection) == Append(fifo, connection)

\* release_connection: None is ignored, anything else is put at the tail
release_connection(fifo, connection) ==
    IF connection = None THEN fifo ELSE Append(fifo, connection)

\* a variant that reads the head and leaves it in the queue
get_connection_rest_keeps_head(fifo) == fifo

\* get_connection on a non-empty queue: Queue.get removes and returns the head
get_connection_rest(fifo) == Tail(fifo)

\* ---- run() and execute_query() ----

\* a variant that sends the members of no credentials at all
server_token_of_none(server_auth) ==
    [client_key |-> <<"client_key", "None">>, access_token |-> <<"access_token", "None">>]

\* ZTeraDBServerAuth.server_token: the client_key and the access_token of
\* the credentials adopted, each named by the credentials it is a member of
server_token(server_auth) ==
    [client_key |-> <<"client_key", server_auth>>,
     access_token |-> <<"access_token", server_auth>>]

Raise(cal, exc, msg) ==
    [cal EXCEPT !.pc = "done", !.outcome = exc, !.errmsg = msg, !.query_timeout = FALSE]

\* execute_query from its start to the first read, for the caller record cal
\* (conn, query and query_timeout set): the isinstance test, the reconnect of
\* a session that is not connected, the server_auth test, query.generate()
\* and send().  ses and fifo are the sessions and the queue as the step
\* finds them
execute_query_start(c, cal, ses, fifo) ==
    LET s == cal.conn
        q == cal.query
    IN
    IF ~isinstance_ZTeraDBQuery(q)
    THEN /\ connections' = release_connection(fifo, s)
         /\ caller' = [caller EXCEPT ![c] =
               [Raise(cal, "ValueError", "not an instance of ZTeraDBQuery")
                   EXCEPT !.rel = Append(@, s)]]
         /\ sess' = ses
         /\ UNCHANGED stream
    ELSE IF ~ses[s].is_connected
    THEN \* connect() on a closed session: open_connection may give a new
         \* writer, then send() raises because _is_connected is False
         \E opened \in BOOLEAN :
            /\ sess' = [ses EXCEPT ![s].writer = IF opened THEN "open" ELSE @]
            /\ stream' = [stream EXCEPT ![s] = IF opened THEN <<>> ELSE @]
            /\ caller' = [caller EXCEPT ![c] = Raise(cal, "ZTeraBaseError", "Connection error")]
            /\ connections' = fifo
    ELSE IF ses[s].server_auth = "None"
    THEN /\ connections' = release_connection(fifo, s)
         /\ caller' = [caller EXCEPT ![c] =
               [Raise(cal, "ZTeraBaseError", "Not connected") EXCEPT !.rel = Append(@, s)]]
         /\ sess' = ses
         /\ UNCHANGED stream
    ELSE IF generate_raises(q)
    THEN /\ caller' = [caller EXCEPT ![c] = Raise(cal, "ZTeraDBQueryError", "kind not set")]
         /\ sess' = ses
         /\ connections' = fifo
         /\ UNCHANGED stream
    ELSE /\ connections' = fifo
         /\ \/ \* the request is written with **server_token(): the server
               \* owes a response
               /\ ses[s].writer = "open"
               /\ caller' = [caller EXCEPT ![c] = [cal EXCEPT !.pc = "reading"]]
               /\ stream' = [stream EXCEPT ![s] =
                     Append(@, [q |-> c, n |-> 0, token |-> server_token(ses[s].server_auth)])]
               /\ sess' = ses
            \/ \* pack() raises struct.error on a payload above 65535 bytes,
               \* or write/drain fails: send() closes and swallows the error,
               \* and execute_query goes on to its loop
               /\ caller' = [caller EXCEPT ![c] = [cal EXCEPT !.pc = "reading", !.fault = "send"]]
               /\ sess' = [ses EXCEPT ![s] = close(@)]
               /\ stream' = [stream EXCEPT ![s] = <<>>]

\* run() from the return of get_connection on: the None test, the creation
\* of the generator (which does not start it), the test of
\* query.is_select_query and, for a query that is no select, __anext__,
\* which runs execute_query up to its first read without suspending.
\* For a select the generator is returned unstarted.
\* The arguments query = q and query_timeout = t are first looked at here.
run_after_get(c, connection, q, t, ses, fifo) ==
    LET cal == [caller[c] EXCEPT !.conn = connection] IN
    IF connection = None
    THEN /\ caller' = [caller EXCEPT ![c] = Raise(cal, "Exception", "Connection does not exists")]
         /\ sess' = ses
         /\ connections' = fifo
         /\ UNCHANGED stream
    ELSE IF q = "NotQuery"
    THEN /\ caller' = [caller EXCEPT ![c] =
               [Raise(cal, "AttributeError", "is_select_query") EXCEPT !.query = q]]
         /\ sess' = ses
         /\ connections' = fifo
         /\ UNCHANGED stream
    ELSE IF is_select_query(q)
    THEN /\ caller' = [caller EXCEPT ![c] =
               [cal EXCEPT !.pc = "gen", !.query = q, !.query_timeout = t]]
         /\ sess' = ses
         /\ connections' = fifo
         /\ UNCHANGED stream
    ELSE execute_query_start(c, [cal EXCEPT !.query = q, !.query_timeout = t], ses, fifo)

\* a variant that opens no session beyond max_connections: with an empty
\* queue and made sessions at the maximum it waits for a release
get_connection_source_bounded(fifo, made) ==
    IF fifo # <<>> THEN "queue"
    ELSE IF made < MaxConnections THEN "new" ELSE "wait"

\* get_connection: where the connection comes from.  A queue that is not
\* empty gives its head; otherwise get_new_connection is awaited.  made, the
\* number of sessions made so far, is not looked at, nor is max_connections
get_connection_source(fifo, made) ==
    IF fifo # <<>> THEN "queue" ELSE "new"

\* run(): get_connection().  A non-empty queue gives its head at once and
\* run() goes on; an empty one starts get_new_connection, whatever the number
\* of live sessions
Run(c) ==
    /\ caller[c].pc = "idle"
    /\ get_connection_source(connections, nsess) # "wait"
    /\ UNCHANGED <<pw, closing, purevars>>
    /\ IF get_connection_source(connections, nsess) = "queue"
       THEN /\ \E q \in QueryArgs, t \in BOOLEAN :
                  run_after_get(c, Head(connections), q, t, sess, get_connection_rest(connections))
            /\ UNCHANGED nsess
       ELSE /\ caller' = [caller EXCEPT ![c].pc = "connecting"]
            /\ nsess' = nsess + 1
            /\ sess' = [sess EXCEPT ![nsess + 1] = NewSession(c)]
            /\ UNCHANGED <<stream, connections>>

\* the first __anext__ on the generator of a select
GenStart(c) ==
    /\ caller[c].pc = "gen"
    /\ execute_query_start(c, caller[c], sess, connections)
    /\ UNCHANGED <<nsess, pw, closing, purevars>>

\* ---- get_new_connection / connect ----

\* get_new_connection returns r to its caller: "conn" is the connection
\* object, "none" is None (the except clauses of get_new_connection).
\* The awaiting coroutine (get_connection <- run) goes on in the same step.
FinishConnect(s, rec, r) ==
    LET ses == [sess EXCEPT ![s] = IF r = "conn"
                                   THEN [rec EXCEPT !.phase = "idle", !.result = r, !.owner = None]
                                   ELSE Dropped]
    IN
    IF rec.owner \in Callers
    THEN \E q \in QueryArgs, t \in BOOLEAN :
            run_after_get(rec.owner, IF r = "conn" THEN s ELSE None, q, t, ses, connections)
    ELSE /\ sess' = ses
         /\ UNCHANGED <<stream, connections, caller>>

\* connect(): asyncio.open_connection, then send() of the CONNECT request
ConnectOpen(s) ==
    /\ sess[s].phase = "open"
    /\ UNCHANGED <<nsess, pw, closing, purevars>>
    /\ \/ \* open_connection raises: ZTeraBaseError("Connection error")
          FinishConnect(s, sess[s], "none")
       \/ \* connected, request written: the server answers with two frames
          /\ sess' = [sess EXCEPT ![s].writer = "open", ![s].phase = "read1",
                                  ![s].pending = HandshakeFramesSent]
          /\ UNCHANGED <<stream, connections, caller>>
       \/ \* connected, write/drain fails: send() closes and swallows; both
          \* reads then return None at once: NoResponseDataError
          FinishConnect(s, close([sess[s] EXCEPT !.writer = "open"]), "none")

\* what the handshake is meant to prove: the server answered without error and
\* its token is the hash of the secret and the nonce it names.  The session
\* keeps it in the history field verified
HandshakeProof(resp) ==
    /\ resp.typ = "json"
    /\ ~resp.error
    /\ resp.client_auth.request_token = Hash(secret_key, resp.client_auth.nonce)

\* connect(): lines 299-334, the handshake response is judged
ConnectFinish(s, rec0, resp) ==
    LET v == connect_verdict(resp)
        rec == [rec0 EXCEPT !.verified = HandshakeProof(resp)]
    IN
    IF v = "ready"
    THEN \* set_server_auth; super().__init__ and _is_connected = True
         FinishConnect(s, [rec EXCEPT !.server_auth = resp.data,
                                      !.is_connected = TRUE], "conn")
    ELSE IF v = "auth_failed"
    THEN \* AuthenticationFailed is swallowed: connect() returns None
         \* normally and get_new_connection returns the connection
         FinishConnect(s, rec, "conn")
    ELSE FinishConnect(s, rec, "none")

\* a variant of connect() that reads the response only and judges it at
\* once, leaving the terminator in the stream
ConnectRead1_no_second_read(s) ==
    /\ sess[s].phase = "read1"
    /\ UNCHANGED <<nsess, pw, closing, purevars>>
    /\ \E f \in HandshakeFrames :
          ConnectFinish(s, [sess[s] EXCEPT !.pending = @ - 1], f)

\* connect(): the first read(), under wait_for when connect_timeout is set
ConnectRead1(s) ==
    /\ sess[s].phase = "read1"
    /\ UNCHANGED <<nsess, pw, closing, purevars>>
    /\ \/ \* a frame is read and kept in response_data; connect() looks at
          \* it only after the second read, which is where the model draws
          \* its content
          /\ sess' = [sess EXCEPT ![s].phase = "read2", ![s].pending = @ - 1]
          /\ UNCHANGED <<stream, connections, caller>>
       \/ \* short read: read() closes and returns None, so does the second read
          FinishConnect(s, close(sess[s]), "none")
       \/ \* asyncio.TimeoutError -> ZTeraBaseError("Connection timeout")
          /\ connect_timeout
          /\ \E caught \in BOOLEAN : FinishConnect(s, cancel_read(sess[s], caught), "none")

\* connect(): the second read() (no timeout), whose result is discarded
ConnectRead2(s) ==
    /\ sess[s].phase = "read2"
    /\ UNCHANGED <<nsess, pw, closing, purevars>>
    /\ \E f \in HandshakeFrames :
          \/ \* the terminator is read and dropped
             ConnectFinish(s, [sess[s] EXCEPT !.pending = @ - 1], f)
          \/ \* short read of the terminator: read() closes the session
             ConnectFinish(s, close(sess[s]), f)

\* ---- prewarm: _async_init -> create_min_connections ----
PrewarmStart ==
    /\ pw.pc = "init"
    /\ pw' = [pc |-> "gather", tasks |-> [i \in 1..MinConnections |-> nsess + i]]
    /\ nsess' = nsess + MinConnections
    /\ sess' = [s \in Sessions |->
                  IF s \in (nsess + 1)..(nsess + MinConnections)
                  THEN NewSession(PrewarmTask) ELSE sess[s]]
    /\ UNCHANGED <<stream, connections, caller, closing, purevars>>

\* Keeps only the elements of a sequence that are not None
RECURSIVE WithoutNone(_)
WithoutNone(q) ==
    IF q = <<>> THEN <<>>
    ELSE IF Head(q) = None THEN WithoutNone(Tail(q))
    ELSE <<Head(q)>> \o WithoutNone(Tail(q))

\* a variant that puts only the connections that were made
create_min_connections_skips_none ==
    /\ pw.pc = "gather"
    /\ \A i \in 1..Len(pw.tasks) : sess[pw.tasks[i]].result # "pending"
    /\ connections' = connections \o WithoutNone(
          [i \in 1..Len(pw.tasks) |->
              IF sess[pw.tasks[i]].result = "conn" THEN pw.tasks[i] ELSE None])
    /\ pw' = [pc |-> "done", tasks |-> <<>>]
    /\ UNCHANGED <<sess, stream, nsess, caller, closing, purevars>>

\* asyncio.gather has every result; each one, None included, is put
create_min_connections ==
    /\ pw.pc = "gather"
    /\ \A i \in 1..Len(pw.tasks) : sess[pw.tasks[i]].result # "pending"
    /\ connections' = connections \o
          [i \in 1..Len(pw.tasks) |->
              IF sess[pw.tasks[i]].result = "conn" THEN pw.tasks[i] ELSE None]
    /\ pw' = [pc |-> "done", tasks |-> <<>>]
    /\ UNCHANGED <<sess, stream, nsess, caller, closing, purevars>>

\* ---- the response loop of execute_query ----

\* the loop ends by NoResponseDataError or QueryComplete:
\* release_connection(self), then the generator is exhausted.  run() of a
\* query that is no select awaits __anext__ and gets StopAsyncIteration
EndLoopRec(cal, f) ==
    [cal EXCEPT !.pc = "done",
                !.query_timeout = FALSE,
                !.rel = Append(@, cal.conn),
                !.got = Append(@, f),
                !.outcome = IF is_select_query(cal.query) THEN "ended" ELSE "StopAsyncIteration"]

EndLoop(c, f) ==
    /\ connections' = release_connection(connections, caller[c].conn)
    /\ caller' = [caller EXCEPT ![c] = EndLoopRec(caller[c], f)]

\* a frame was read and parsed
OnFrame(c, f) ==
    LET r == parse_query_response_data(f) IN
    IF r = "yield"
    THEN /\ caller' = [caller EXCEPT
                 ![c].got = Append(@, f),
                 ![c].yielded = Append(@, f.data),
                 ![c].pc = IF is_select_query(caller[c].query) THEN "reading" ELSE "done",
                 ![c].query_timeout = IF is_select_query(caller[c].query) THEN @ ELSE FALSE,
                 ![c].outcome = IF is_select_query(caller[c].query) THEN @ ELSE "returned"]
         /\ UNCHANGED connections
    ELSE IF r \in {"complete", "nodata"}
    THEN EndLoop(c, f)
    ELSE /\ caller' = [caller EXCEPT ![c] =
               [Raise(caller[c], IF r = "decode" THEN "JSONDecodeError" ELSE "ZTeraBaseError",
                                 IF r = "error" THEN f.data ELSE "Invalid response")
                   EXCEPT !.got = Append(@, f)]]
         /\ UNCHANGED connections

\* a variant in which the timeout goes the way of the end of the stream and
\* releases the session
ReadTimeout_releases(c) ==
    /\ caller[c].query_timeout
    /\ \E caught \in BOOLEAN :
          sess' = [sess EXCEPT ![caller[c].conn] = cancel_read(@, caught)]
    /\ caller' = [caller EXCEPT ![c] =
          [Raise(caller[c], "TimeoutError", "") EXCEPT !.rel = Append(@, caller[c].conn)]]
    /\ connections' = release_connection(connections, caller[c].conn)
    /\ UNCHANGED stream

\* the read of the loop exceeds query_timeout: asyncio.TimeoutError leaves
\* the generator, nothing is released
ReadTimeout(c) ==
    /\ caller[c].query_timeout
    /\ \E caught \in BOOLEAN :
          sess' = [sess EXCEPT ![caller[c].conn] = cancel_read(@, caught)]
    /\ caller' = [caller EXCEPT ![c] = Raise(caller[c], "TimeoutError", "")]
    /\ UNCHANGED <<stream, connections>>

\* one turn of the loop of execute_query: read() (under wait_for when
\* query_timeout is set), parse_query_response_data, yield
GenRead(c) ==
    LET s == caller[c].conn IN
    /\ caller[c].pc = "reading"
    /\ UNCHANGED <<nsess, pw, closing, purevars>>
    /\ IF ~sess[s].is_connected
       THEN \* read() returns None at once
            /\ EndLoop(c, NoFrame)
            /\ UNCHANGED <<sess, stream>>
       ELSE \/ \* a frame of the handshake that connect() left in the stream
               \* arrives before any frame of a response
               /\ sess[s].writer = "open"
               /\ sess[s].pending > 0
               /\ sess' = [sess EXCEPT ![s].pending = @ - 1]
               /\ OnFrame(c, HandshakeTerminator)
               /\ UNCHANGED stream
            \/ \* a whole frame arrives: the next one of the oldest response
               /\ sess[s].writer = "open"
               /\ sess[s].pending = 0
               /\ stream[s] # <<>>
               /\ \E f \in QueryFrames(Head(stream[s])) :
                     /\ stream' = [stream EXCEPT ![s] =
                           IF f.error \/ f.response_code = QUERY_COMPLETE
                           THEN Tail(@)
                           ELSE <<[Head(@) EXCEPT !.n = @ + 1]>> \o Tail(@)]
                     /\ OnFrame(c, f)
               /\ UNCHANGED sess
            \/ \* short read of the header or of the payload:
               \* IncompleteReadError, read() closes and returns None
               /\ sess' = [sess EXCEPT ![s] = close(@)]
               /\ stream' = [stream EXCEPT ![s] = <<>>]
               /\ connections' = release_connection(connections, s)
               /\ caller' = [caller EXCEPT ![c] = [EndLoopRec(caller[c], NoFrame) EXCEPT !.fault = "short"]]
            \/ ReadTimeout(c)

\* the caller of a select stops iterating (or never starts): the generator
\* is dropped at its yield and its final release is never reached
Abandon(c) ==
    /\ caller[c].pc \in {"gen", "reading"}
    /\ is_select_query(caller[c].query)
    /\ caller' = [caller EXCEPT ![c].pc = "done", ![c].outcome = "abandoned",
                                ![c].query_timeout = FALSE]
    /\ UNCHANGED <<sess, stream, connections, nsess, pw, closing, purevars>>

\* ---- ZTeraDBConnectionManager.close ----

\* the number of entries at the head of the queue that the loop of close()
\* passes without suspending: None is skipped, and close() of a session that
\* is not connected returns at once
RECURSIVE NumSkipped(_, _)
NumSkipped(fifo, ses) ==
    IF fifo = <<>> THEN 0
    ELSE IF Head(fifo) = None THEN 1 + NumSkipped(Tail(fifo), ses)
    ELSE IF ~ses[Head(fifo)].is_connected THEN 1 + NumSkipped(Tail(fifo), ses)
    ELSE 0

\* the loop of close() up to its next suspension: entries are taken while the
\* queue is not empty; close() of a connected session marks it, shuts the
\* writer and waits in wait_closed.  taken: the sessions taken so far; left:
\* the queue as close() left it
CloseLoop ==
    LET k == NumSkipped(connections, sess)
        skipped == {connections[i] : i \in 1..k} \ {None}
    IN IF k = Len(connections)
       THEN /\ connections' = <<>>
            /\ closing' = [pc |-> "done", cur |-> None,
                           taken |-> closing.taken \cup skipped, left |-> <<>>]
            /\ UNCHANGED sess
       ELSE /\ connections' = SubSeq(connections, k + 2, Len(connections))
            /\ sess' = [sess EXCEPT ![connections[k + 1]] = close(@)]
            /\ closing' = [pc |-> "wait_closed", cur |-> connections[k + 1],
                           taken |-> closing.taken \cup skipped \cup {connections[k + 1]},
                           left |-> <<>>]

\* close() of the pool is called (directly or by __aexit__)
PoolClose ==
    /\ closing.pc = "idle"
    /\ CloseLoop
    /\ UNCHANGED <<stream, nsess, pw, caller, purevars>>

\* wait_closed of the session being closed ends
PoolCloseResume ==
    /\ closing.pc = "wait_closed"
    /\ UNCHANGED <<stream, nsess, pw, caller, purevars>>
    /\ \/ \* it returns, or raises ConnectionResetError or BrokenPipeError,
          \* which ZTeraDBTCPProtocol.close logs: the loop goes on
          CloseLoop
       \/ \* it raises another error of the lost connection (TimeoutError,
          \* ConnectionAbortedError, ...): the error leaves close()
          /\ closing' = [closing EXCEPT !.pc = "raised", !.cur = None, !.left = connections]
          /\ UNCHANGED <<sess, connections>>

Next ==
    \/ PrewarmStart
    \/ create_min_connections
    \/ \E s \in Sessions : ConnectOpen(s)
    \/ \E s \in Sessions : ConnectRead1(s)
    \/ \E s \in Sessions : ConnectRead2(s)
    \/ \E c \in Callers : Run(c)
    \/ \E c \in Callers : GenStart(c)
    \/ \E c \in Callers : GenRead(c)
    \/ \E c \in Callers : Abandon(c)

Spec == Init /\ [][Next]_vars

\* one task that runs a query, the prewarm and a task that closes the pool
CloseCallers == {1}

CloseNext ==
    \/ PrewarmStart
    \/ create_min_connections
    \/ \E s \in Sessions : ConnectOpen(s)
    \/ \E s \in Sessions : ConnectRead1(s)
    \/ \E s \in Sessions : ConnectRead2(s)
    \/ \E c \in CloseCallers : Run(c)
    \/ \E c \in CloseCallers : GenStart(c)
    \/ \E c \in CloseCallers : GenRead(c)
    \/ \E c \in CloseCallers : Abandon(c)
    \/ PoolClose
    \/ PoolCloseResume

CloseSpec == Init /\ [][CloseNext]_vars

TypeOK ==
    /\ nsess \in 0..(NumCallers + MinConnections)
    /\ \A i \in 1..Len(connections) : connections[i] \in Sessions \cup {None}

\* every step that can be taken is eventually taken: the event loop runs
\* each ready task, and the environment completes (or fails) each pending
\* connect and read
FairSpec == Spec /\ WF_vars(Next)

\* what the code itself brings about: a task that can run does run, the
\* connection attempt ends one way or the other, and the first read of
\* connect() ends by a frame, by the end of the stream or, under wait_for,
\* by the timer.  No timer runs on the second read of connect() nor, without
\* query_timeout, on the reads of the response loop: a frame the server
\* never sends is never read
TimerFairSpec ==
    /\ Spec
    /\ WF_vars(PrewarmStart)
    /\ WF_vars(\E s \in Sessions : ConnectOpen(s))
    /\ WF_vars(\E s \in Sessions : connect_timeout /\ ConnectRead1(s))

\* ---- framing: DataManager.pack and ZTeraDBTCPProtocol.read ----

\* struct_fmt "!H": the header is BUFFER_SIZE bytes, an unsigned big-endian
\* 16-bit length, so that MaxPayload is the longest payload pack accepts
BUFFER_SIZE == 2
MaxPayload == 65535

\* A byte string is a sequence of runs [v |-> byte, n |-> count], n >= 1.
BLen(bs) == IF bs = <<>> THEN 0 ELSE LET S[i \in 0..Len(bs)] == IF i = 0 THEN 0 ELSE S[i - 1] + bs[i].n
                                     IN S[Len(bs)]

RECURSIVE Take(_, _)
Take(bs, k) ==
    IF k = 0 \/ bs = <<>> THEN <<>>
    ELSE IF Head(bs).n <= k THEN <<Head(bs)>> \o Take(Tail(bs), k - Head(bs).n)
    ELSE <<[v |-> Head(bs).v, n |-> k]>>

RECURSIVE Drop(_, _)
Drop(bs, k) ==
    IF k = 0 \/ bs = <<>> THEN bs
    ELSE IF Head(bs).n <= k THEN Drop(Tail(bs), k - Head(bs).n)
    ELSE <<[v |-> Head(bs).v, n |-> Head(bs).n - k]>> \o Tail(bs)

\* the same bytes with adjacent runs of one byte value merged
RECURSIVE Norm(_)
Norm(bs) ==
    IF Len(bs) <= 1 THEN bs
    ELSE IF bs[1].v = bs[2].v
         THEN Norm(<<[v |-> bs[1].v, n |-> bs[1].n + bs[2].n]>> \o Tail(Tail(bs)))
         ELSE <<bs[1]>> \o Norm(Tail(bs))

ByteAt(bs, i) == Take(Drop(bs, i - 1), 1)[1].v

Repeat(v, n) == IF n = 0 THEN <<>> ELSE <<[v |-> v, n |-> n]>>

\* struct.pack("!H", length) + data; struct.error beyond 16 bits
pack_raises(data) == BLen(data) > MaxPayload

pack(data) ==
    Repeat(BLen(data) \div 256, 1) \o Repeat(BLen(data) % 256, 1) \o data

\* a variant that reads the length low byte first
unpack_little_endian(header) == ByteAt(header, 1) + 256 * ByteAt(header, 2)

\* struct.unpack("!H", data[:BUFFER_SIZE])[0]
unpack(header) == 256 * ByteAt(header, 1) + ByteAt(header, 2)

\* receive_all_data: nothing is read for size 0; otherwise readexactly(size)
\* gives size bytes or raises IncompleteReadError when the stream ends first
receive_all_data(bs, size) ==
    IF BLen(bs) >= size
    THEN [ok |-> TRUE, data |-> Take(bs, size), rest |-> Drop(bs, size)]
    ELSE [ok |-> FALSE, data |-> <<>>, rest |-> <<>>]

\* the payloads written: lengths around the byte and the header boundaries,
\* filled with one byte value
PayloadLens == {1, 2, 255, 256, 257, 65534, 65535, 65536}
Payloads == {Repeat(v, n) : v \in {65, 66}, n \in PayloadLens}

\* what is on the stream behind the frame: nothing, a second frame, or the
\* first byte of one
Trailers == {<<>>, pack(Repeat(66, 2)), Repeat(0, 1)}

\* payload is sent as a frame, followed by after; lost is the number of
\* bytes at the end of the stream that never arrive
FrameInit ==
    /\ PoolInit
    /\ qb = QbIdle
    /\ cond = CondIdle
    /\ config = ConfigIdle
    /\ handshake = HandshakeIdle
    /\ \E d \in Payloads, a \in Trailers, l \in {0, 1} :
          wire = [pc |-> "send", payload |-> d, after |-> a, lost |-> l,
                  bytes |-> <<>>, header |-> <<>>, result |-> <<>>]

\* send(): DataManager(data).pack() is written; struct.error is caught by
\* send(), which closes the session
FrameSend ==
    /\ wire.pc = "send"
    /\ wire' = IF pack_raises(wire.payload)
               THEN [wire EXCEPT !.pc = "send_failed"]
               ELSE [wire EXCEPT !.pc = "sent",
                                 !.bytes = Take(pack(wire.payload) \o wire.after,
                                                BLen(pack(wire.payload) \o wire.after) - wire.lost)]
    /\ UNCHANGED <<poolvars, closing, qb, cond, config, handshake>>

\* read(): the header
FrameReadHeader ==
    /\ wire.pc = "sent"
    /\ LET r == receive_all_data(wire.bytes, BUFFER_SIZE) IN
          wire' = IF r.ok
                  THEN [wire EXCEPT !.pc = "header", !.header = r.data, !.bytes = r.rest]
                  ELSE [wire EXCEPT !.pc = "read_none", !.bytes = <<>>]
    /\ UNCHANGED <<poolvars, closing, qb, cond, config, handshake>>

\* read(): the payload, of the length the header gives
FrameReadPayload ==
    /\ wire.pc = "header"
    /\ LET r == receive_all_data(wire.bytes, unpack(wire.header)) IN
          wire' = IF r.ok
                  THEN [wire EXCEPT !.pc = "read", !.result = r.data, !.bytes = r.rest]
                  ELSE [wire EXCEPT !.pc = "read_none", !.bytes = <<>>]
    /\ UNCHANGED <<poolvars, closing, qb, cond, config, handshake>>

FrameNext ==
    \/ FrameSend
    \/ FrameReadHeader
    \/ FrameReadPayload

FrameSpec == FrameInit /\ [][FrameNext]_vars

\* ---- the query builder: ZTeraDBQuery ----

MaxCalls == 3           \* builder calls made on one query object

\* ZTeraDBQueryType; NONE is None
INSERT == 1
SELECT == 2
UPDATE == 3
DELETE == 4
KindCodes == {INSERT, SELECT, UPDATE, DELETE}

\* A Python value by its type t and n: the number for int, bool and float
\* (1 for 1.5), the length for str, dict, list, tuple and set, 0 for None
V(t, n) == [t |-> t, n |-> n]
NoneValue == V("NoneType", 0)

\* bool(value)
bool_of(v) == v.n # 0

\* isinstance(value, (str, int, float, bool, complex, bytes))
isinstance_scalar(v) == v.t \in {"str", "int", "float", "bool", "complex", "bytes"}

\* isinstance(value, int): bool is a subclass of int
isinstance_int(v) == v.t \in {"int", "bool"}

\* values given to fields() and filter()
FieldValues ==
    {V("int", 1), V("int", 0), V("str", 1), NoneValue,
     V("dict", 0), V("dict", 1), V("list", 0), V("list", 1), V("set", 0), V("function", 1)}

\* keyword arguments of fields() and filter(), in the order given: one
\* value, or two of which either may be refused
FieldKwargs ==
    {<<[k |-> "a", v |-> v]>> : v \in FieldValues}
    \cup {<<[k |-> "a", v |-> v1], [k |-> "b", v |-> v2]>> :
             v1 \in {V("int", 1), V("list", 0)},
             v2 \in {V("str", 1), NoneValue, V("dict", 1), V("set", 0)}}

\* arguments of limit()
LimitArgs ==
    {V("int", -1), V("int", 0), V("int", 1), V("int", 2),
     V("str", 1), V("float", 1), V("bool", 1), NoneValue}

\* dict[k] = v
Put(d, k, v) == [x \in DOMAIN d \cup {k} |-> IF x = k THEN v ELSE d[x]]

\* ZTeraDBQuery.__init__; database_id "" stands for no database_id, limit
\* <<>> for _limit = None
NewQuery(db) ==
    [schema_name |-> "s", database_id |-> db, query_type |-> None,
     fields |-> <<>>, filters |-> <<>>, filter_conditions |-> <<>>,
     limit |-> <<>>, sort |-> <<>>, related_fields |-> <<>>, count |-> FALSE]

\* the result of a builder call: the object afterwards, and whether the
\* call raised
Ok(q) == [q |-> q, raised |-> FALSE]
Raised(q) == [q |-> q, raised |-> TRUE]

\* a variant that keeps the kind once one is set
set_query_type_first_wins(q, query_type) ==
    IF q.query_type = None THEN [q EXCEPT !.query_type = query_type] ELSE q

set_query_type(q, query_type) == [q EXCEPT !.query_type = query_type]

insert(q) == Ok(set_query_type(q, INSERT))
select(q) == Ok(set_query_type(q, SELECT))
update(q) == Ok(set_query_type(q, UPDATE))
delete(q) == Ok(set_query_type(q, DELETE))

\* the loop of fields() (lax = FALSE) and of filter() (lax = TRUE, the test
\* "value and ..."): the values before a refused one are already stored
RECURSIVE MergeKwargs(_, _, _)
MergeKwargs(d, kw, lax) ==
    IF kw = <<>> THEN [d |-> d, raised |-> FALSE]
    ELSE IF (lax => bool_of(Head(kw).v)) /\ ~isinstance_scalar(Head(kw).v)
         THEN [d |-> d, raised |-> TRUE]
         ELSE MergeKwargs(Put(d, Head(kw).k, Head(kw).v), Tail(kw), lax)

fields(q, kw) ==
    LET r == MergeKwargs(q.fields, kw, FALSE)
    IN [q |-> [q EXCEPT !.fields = r.d], raised |-> r.raised]

filter(q, kw) ==
    LET r == MergeKwargs(q.filters, kw, TRUE)
    IN [q |-> [q EXCEPT !.filters = r.d], raised |-> r.raised]

\* a variant that accepts end = start
limit_end_not_below(q, start, end) ==
    IF ~isinstance_int(start) THEN Raised(q)
    ELSE IF start.n < 0 THEN Raised(q)
    ELSE IF ~isinstance_int(end) THEN Raised(q)
    ELSE IF end.n < start.n THEN Raised(q)
    ELSE Ok([q EXCEPT !.limit = <<start, end>>])

limit(q, start, end) ==
    IF ~isinstance_int(start) THEN Raised(q)
    ELSE IF start.n < 0 THEN Raised(q)
    ELSE IF ~isinstance_int(end) THEN Raised(q)
    ELSE IF end.n <= start.n THEN Raised(q)
    ELSE Ok([q EXCEPT !.limit = <<start, end>>])

get_limit(q) == q.limit

count(q) == Ok([q EXCEPT !.count = TRUE])

\* sort(field=order): Sort keeps ASC for order 1 and DESC for anything else
sort(q, field, order) ==
    Ok([q EXCEPT !.sort = Append(@, [field |-> field,
                                     sort_order |-> IF order = 1 THEN 1 ELSE -1])])

\* {sort.field: sort.sort_order for sort in self._sort}: the last one of a
\* field stays
get_sort(q) ==
    [f \in {q.sort[i].field : i \in 1..Len(q.sort)} |->
        q.sort[CHOOSE i \in 1..Len(q.sort) :
                  /\ q.sort[i].field = f
                  /\ \A j \in (i + 1)..Len(q.sort) : q.sort[j].field # f].sort_order]

\* filter_condition(c): c is a ZTeraDBFilterCondition ("cond") or not
filter_condition(q, c) ==
    IF c # "cond" THEN Raised(q)
    ELSE Ok([q EXCEPT !.filter_conditions = Append(@, "cond_fields")])

\* the members generate() hands to Query(...)
Members(q) ==
    [sh |-> q.schema_name, db |-> q.database_id, qt |-> q.query_type,
     fl |-> q.fields, fi |-> q.filters, fc |-> q.filter_conditions,
     rf |-> q.related_fields, st |-> get_sort(q), lt |-> get_limit(q), cnt |-> q.count]

\* bool(val) of a member of Query
IsTruthy(k, x) ==
    CASE k \in {"sh", "db"} -> x # ""
      [] k = "qt" -> x # 0
      [] k = "cnt" -> x
      [] OTHER -> DOMAIN x # {}

generate_error(q) == q.query_type = None

\* a variant that returns every member
generate_unfiltered(q) == Members(q)

\* generate(): {key: val for key, val in query.__dict__.items() if val}
generate(q) ==
    [k \in {x \in DOMAIN Members(q) : IsTruthy(x, Members(q)[x])} |-> Members(q)[k]]

\* related_field(r=sub): sub is no ZTeraDBQuery (isq FALSE), or one whose
\* generate() raises or gives the dictionary stored under r
SubQueries ==
    {[isq |-> FALSE, q |-> NewQuery("")],
     [isq |-> TRUE, q |-> NewQuery("")],
     [isq |-> TRUE, q |-> set_query_type(NewQuery(""), SELECT)]}

related_field(q, sub) ==
    IF ~sub.isq THEN Raised(q)
    ELSE IF generate_error(sub.q) THEN Raised(q)
    ELSE Ok([q EXCEPT !.related_fields = Put(@, "r", generate(sub.q))])

\* One call on the query object: op and arg name the call, r is its result.
\* The object keeps no history, so the state does: last is the call just
\* made, kindcall the latest of insert/select/update/delete ("" for none),
\* lim the arguments of the latest limit() call with 0 <= start < end, both
\* of them int.
KindCalls == {"insert", "select", "update", "delete"}

IsInteger(v) == v.t \in {"int", "bool"}

InRange(arg) ==
    /\ IsInteger(arg[1]) /\ IsInteger(arg[2])
    /\ arg[1].n >= 0
    /\ arg[2].n > arg[1].n

Called(op, arg, r) ==
    /\ qb.pc = "query"
    /\ qb.ncalls < MaxCalls
    /\ qb' = [qb EXCEPT !.q = r.q,
                        !.ncalls = @ + 1,
                        !.last = [op |-> op, arg |-> arg, raised |-> r.raised, before |-> qb.q],
                        !.kindcall = IF op \in KindCalls THEN op ELSE @,
                        !.lim = IF op = "limit" /\ InRange(arg) THEN arg ELSE @]
    /\ UNCHANGED <<poolvars, closing, wire, cond, config, handshake>>

CallInsert == Called("insert", <<>>, insert(qb.q))
CallSelect == Called("select", <<>>, select(qb.q))
CallUpdate == Called("update", <<>>, update(qb.q))
CallDelete == Called("delete", <<>>, delete(qb.q))
CallFields == \E kw \in FieldKwargs : Called("fields", kw, fields(qb.q, kw))
CallFilter == \E kw \in FieldKwargs : Called("filter", kw, filter(qb.q, kw))
CallLimit == \E start \in LimitArgs, end \in LimitArgs :
    Called("limit", <<start, end>>, limit(qb.q, start, end))
CallCount == Called("count", <<>>, count(qb.q))
\* orders passed to sort(): ASC, DESC and two that are neither
SortOrders == {1, -1, 0, 2}

CallSort == \E field \in {"a", "b"}, order \in SortOrders :
    Called("sort", <<field, order>>, sort(qb.q, field, order))
CallFilterCondition == \E c \in {"cond", "other"} :
    Called("filter_condition", <<c>>, filter_condition(qb.q, c))
CallRelatedField == \E sub \in SubQueries :
    Called("related_field", <<sub>>, related_field(qb.q, sub))

NoCall == [op |-> "new", arg |-> <<>>, raised |-> FALSE, before |-> NewQuery("")]

QueryInit ==
    /\ PoolInit
    /\ wire = WireIdle
    /\ cond = CondIdle
    /\ config = ConfigIdle
    /\ handshake = HandshakeIdle
    /\ qb \in {[pc |-> "query", q |-> NewQuery(db), ncalls |-> 0, last |-> NoCall,
                kindcall |-> "", lim |-> <<>>] : db \in {"", "db1"}}

QueryNext ==
    \/ CallInsert
    \/ CallSelect
    \/ CallUpdate
    \/ CallDelete
    \/ CallFields
    \/ CallFilter
    \/ CallLimit
    \/ CallCount
    \/ CallSort
    \/ CallFilterCondition
    \/ CallRelatedField

QuerySpec == QueryInit /\ [][QueryNext]_vars

\* ---- related_field: a parent query and the child query it was given ----

MaxChildCalls == 3      \* builder calls made on the child query

\* the members of the dictionary generate() returns whose value is the
\* query's own container (_fields, _filters, _filter_conditions,
\* _related_fields), not a copy of it; sh, db, qt, cnt are immutable values,
\* st is a dictionary get_sort() builds anew and lt a tuple
SharedMembers == {"fl", "fi", "fc", "rf"}

\* what a dictionary d that generate() of a query returned reads as when
\* that query has become q: the shared members are q's containers as they
\* are now
Reads(d, q) ==
    [k \in DOMAIN d |-> IF k \in SharedMembers THEN Members(q)[k] ELSE d[k]]

\* keyword arguments given to fields() and filter() of the child
ChildKwargs == {<<[k |-> "a", v |-> V("int", 1)]>>, <<[k |-> "b", v |-> V("str", 1)]>>}

\* a parent with its kind set and a new child; linked: related_field(r=child)
\* has been called on the parent
RelatedInit ==
    /\ PoolInit
    /\ wire = WireIdle
    /\ cond = CondIdle
    /\ config = ConfigIdle
    /\ handshake = HandshakeIdle
    /\ qb = [pc |-> "related", parent |-> set_query_type(NewQuery(""), SELECT),
             child |-> NewQuery(""), linked |-> FALSE, ncalls |-> 0, last |-> "new"]

\* one builder call on the child, before or after related_field
ChildCalled(op, r) ==
    /\ qb.pc = "related"
    /\ qb.ncalls < MaxChildCalls
    /\ qb' = [qb EXCEPT !.child = r.q, !.ncalls = @ + 1, !.last = op]
    /\ UNCHANGED <<poolvars, closing, wire, cond, config, handshake>>

ChildKind == \E k \in {"select", "update"} :
    ChildCalled(k, IF k = "select" THEN select(qb.child) ELSE update(qb.child))
ChildFields == \E kw \in ChildKwargs : ChildCalled("fields", fields(qb.child, kw))
ChildFilter == \E kw \in ChildKwargs : ChildCalled("filter", filter(qb.child, kw))
ChildFilterCondition == ChildCalled("filter_condition", filter_condition(qb.child, "cond"))
ChildSort == \E order \in {1, -1} : ChildCalled("sort", sort(qb.child, "a", order))
ChildLimit == \E end \in {V("int", 1), V("int", 2)} :
    ChildCalled("limit", limit(qb.child, V("int", 0), end))

\* parent.related_field(r=child), once, on a child whose generate() works
ParentRelatedField ==
    /\ qb.pc = "related"
    /\ ~qb.linked
    /\ LET r == related_field(qb.parent, [isq |-> TRUE, q |-> qb.child]) IN
       /\ ~r.raised
       /\ qb' = [qb EXCEPT !.parent = r.q, !.linked = TRUE, !.last = "related_field"]
    /\ UNCHANGED <<poolvars, closing, wire, cond, config, handshake>>

RelatedNext ==
    \/ ChildKind
    \/ ChildFields
    \/ ChildFilter
    \/ ChildFilterCondition
    \/ ChildSort
    \/ ChildLimit
    \/ ParentRelatedField

RelatedSpec == RelatedInit /\ [][RelatedNext]_vars

\* ---- filter conditions: ZTeraDBFilterCondition and its factories ----

MaxBuilt == 2           \* factory calls made one after the other

\* ZTeraDBFilterTypes
OR == "||"
AND == "&&"
EQUAL == "="
ADD == "+"
SUB == "-"
MUL == "*"
DIV == "/"
MOD == "%"
GT == ">"
GTE == ">="
LT == "<"
LTE == "<="
CONTAINS == "%%"
ICONTAINS == "i%%"
STARTSWITH == "^%%"
ISTARTSWITH == "^i%%"
ENDSWITH == "%%$"
IENDSWITH == "i%%$"
IN_ == "IN"

\* Python values as before; a str also has the length of str.strip(), a
\* list and a tuple have their items
Str(n, strip) == [t |-> "str", n |-> n, strip |-> strip]
L(items) == [t |-> "list", items |-> items]
T(items) == [t |-> "tuple", items |-> items]

\* ZTeraDBFilterCondition(): an object with an empty filters list
NewCondition == [t |-> "ZTeraDBFilterCondition", filters |-> <<>>]

\* dict(operator=..., operand=...) and dict(operator=..., operand=..., result=...)
Dict2(operator, operand) == [t |-> "dict", operator |-> operator, operand |-> operand]
Dict3(operator, operand, result) ==
    [t |-> "dict", operator |-> operator, operand |-> operand, result |-> result]

\* not value
Not(v) ==
    IF v.t \in {"list", "tuple"} THEN v.items = <<>>
    ELSE IF v.t \in {"ZTeraDBFilterCondition", "builtin_function_or_method", "function"} THEN FALSE
    ELSE v.n = 0

\* isinstance(value, type(self)), isinstance(value, ZTeraDBFilterCondition)
isinstance_ZTeraDBFilterCondition(v) == v.t = "ZTeraDBFilterCondition"

\* not isinstance(value, (dict, list, tuple, set, type(lambda x: x)))
is_valid_value(v) == v.t \notin {"dict", "list", "tuple", "set", "function"}

get_fields(c) == IF Len(c.filters) = 1 THEN c.filters[1] ELSE L(c.filters)

\* the result of a set_... call on a new object: the object, or a ValueError
Appended(c, d) == [raised |-> FALSE, obj |-> [c EXCEPT !.filters = Append(@, d)]]
NoCond == [t |-> "none"]
Refused == [raised |-> TRUE, obj |-> NoCond]

\* value.get_fields() if isinstance(value, type(self)) else value
Rendered(v) == IF isinstance_ZTeraDBFilterCondition(v) THEN get_fields(v) ELSE v

\* [value if isinstance(value, type(self)) else value for value in values]
Kept(values) == [i \in DOMAIN values |-> values[i]]

\* [value.get_fields() if isinstance(value, type(self)) else value for value in values]
RenderedAll(values) == [i \in DOMAIN values |-> Rendered(values[i])]

\* isinstance(field, str) and field.strip()
IsNameString(v) == v.t = "str" /\ v.strip # 0

\* set_add, set_sub, set_mul: the same body with another operator
set_arithmetic(c, operator, values) ==
    IF values.t # "list" THEN Refused
    ELSE IF \E i \in DOMAIN values.items : ~is_valid_value(values.items[i]) THEN Refused
    ELSE Appended(c, Dict2(operator, L(Kept(values.items))))

set_add(c, values) == set_arithmetic(c, ADD, values)
set_sub(c, values) == set_arithmetic(c, SUB, values)
set_mul(c, values) == set_arithmetic(c, MUL, values)

set_div(c, dividend, divisor) ==
    IF ~is_valid_value(dividend) THEN Refused
    ELSE IF ~is_valid_value(divisor) THEN Refused
    ELSE IF Not(divisor) THEN Refused
    ELSE Appended(c, Dict2(DIV, L(<<Rendered(dividend), Rendered(divisor)>>)))

set_equal_filter(c, param, result) ==
    IF ~is_valid_value(param) THEN Refused
    ELSE IF ~is_valid_value(result) THEN Refused
    ELSE Appended(c, Dict3(EQUAL, Rendered(param), Rendered(result)))

set_mod_filter(c, numerator, denominator) ==
    IF ~is_valid_value(numerator) THEN Refused
    ELSE IF ~is_valid_value(denominator) THEN Refused
    ELSE IF Not(denominator) THEN Refused
    ELSE Appended(c, Dict2(MOD, L(<<Rendered(numerator), Rendered(denominator)>>)))

set_in_filter(c, field, values) ==
    IF ~IsNameString(field) THEN Refused
    ELSE IF values.t # "list" THEN Refused
    ELSE Appended(c, Dict3(IN_, field, L(RenderedAll(values.items))))

\* a variant that merges the filters of a child of the same kind into its own
set_or_filter_flat(c, filters) ==
    IF filters.t # "list" THEN Refused
    ELSE LET one == RenderedAll(filters.items)
             flat == IF Len(one) = 2 /\ one[2].t = "dict" /\ one[2].operator \in {OR, AND}
                        /\ one[2].operand.t = "list"
                     THEN <<one[1]>> \o one[2].operand.items ELSE one
         IN Appended(c, Dict2(OR, L(flat)))

set_or_filter(c, filters) ==
    IF filters.t # "list" THEN Refused
    ELSE Appended(c, Dict2(OR, L(RenderedAll(filters.items))))

set_and_filter(c, filters) ==
    IF filters.t # "list" THEN Refused
    ELSE Appended(c, Dict2(AND, L(RenderedAll(filters.items))))

\* set_contains_filter and the five like it: the same body with another
\* operator
set_string_filter_any_value(c, operator, field, value) ==
    IF ~IsNameString(field) THEN Refused
    ELSE IF value.t # "str" THEN Refused
    ELSE Appended(c, Dict3(operator, field, value))

set_string_filter(c, operator, field, value) ==
    IF ~IsNameString(field) THEN Refused
    ELSE IF ~IsNameString(value) THEN Refused
    ELSE Appended(c, Dict3(operator, field, value))

set_contains_filter(c, field, value) == set_string_filter(c, CONTAINS, field, value)
set_icontains_filter(c, field, value) == set_string_filter(c, ICONTAINS, field, value)
set_starts_with_filter(c, field, value) == set_string_filter(c, STARTSWITH, field, value)
set_istarts_with_filter(c, field, value) == set_string_filter(c, ISTARTSWITH, field, value)
set_ends_with_filter(c, field, value) == set_string_filter(c, ENDSWITH, field, value)
set_iends_with_filter(c, field, value) == set_string_filter(c, IENDSWITH, field, value)

\* set_greater_than_filter and the three like it: the same body with
\* another operator
set_comparison(c, operator, params) ==
    IF params.t # "list" THEN Refused
    ELSE IF Len(params.items) < 2 THEN Refused
    ELSE Appended(c, Dict2(operator, L(RenderedAll(params.items))))

set_greater_than_filter(c, params) == set_comparison(c, GT, params)
set_greater_than_or_equal_filter(c, params) == set_comparison(c, GTE, params)
set_less_than_filter(c, params) == set_comparison(c, LT, params)
set_less_than_or_equal_filter(c, params) == set_comparison(c, LTE, params)

\* the factories
ZTAND(filters) == set_and_filter(NewCondition, filters)
ZTOR(filters) == set_or_filter(NewCondition, filters)
ZTEQUAL(param, result) == set_equal_filter(NewCondition, param, result)
ZTIN(key, values) == set_in_filter(NewCondition, key, values)
ZTADD(values) == set_add(NewCondition, values)
ZTSUB(values) == set_sub(NewCondition, values)
ZTMUL(values) == set_mul(NewCondition, values)
ZTDIV(dividend, divisor) == set_div(NewCondition, dividend, divisor)
ZTMOD(numerator, denominator) == set_mod_filter(NewCondition, numerator, denominator)
ZTGT(params) == set_greater_than_filter(NewCondition, params)
ZTGTE(params) == set_greater_than_or_equal_filter(NewCondition, params)
ZTLT(params) == set_less_than_filter(NewCondition, params)
ZTLTE(params) == set_less_than_or_equal_filter(NewCondition, params)
ZTCONTAINS(field, value) == set_contains_filter(NewCondition, field, value)
ZTICONTAINS(field, value) == set_icontains_filter(NewCondition, field, value)
ZTSTARTSWITH(field, value) == set_starts_with_filter(NewCondition, field, value)
ZTISTARTSWITH(field, value) == set_istarts_with_filter(NewCondition, field, value)
ZTENDSWITH(field, value) == set_ends_with_filter(NewCondition, field, value)
ZTIENDSWITH(field, value) == set_iends_with_filter(NewCondition, field, value)

\* arguments: a field name, the condition name = 1, and, once a factory
\* call has returned a condition, that condition
Name == Str(1, 1)
Leaf == ZTEQUAL(Name, V("int", 1)).obj
Made == IF cond.cur.t = "none" THEN {} ELSE {cond.cur}

Elems ==
    {V("int", 1), Name, V("dict", 0), V("set", 0), V("function", 1),
     V("builtin_function_or_method", 1), L(<<V("int", 1)>>), Leaf} \cup Made

\* what is given where a list is expected
ListArgs ==
    {L(<<>>), T(<<V("int", 1), V("int", 1)>>), Name}
    \cup {L(<<e>>) : e \in Elems}
    \cup {L(<<e1, e2>>) : e1 \in Elems, e2 \in {V("int", 1)} \cup Made}

\* the two arguments of ZTDIV, ZTMOD and ZTEQUAL
Firsts == {V("int", 1), Name, V("dict", 0), Leaf} \cup Made
Seconds ==
    {V("int", 1), V("int", 0), V("int", -1), Name, Str(0, 0), NoneValue,
     V("set", 0), V("function", 1), Leaf} \cup Made

\* the two arguments of the string-match factories: "a", "", " " and 1
StringArgs == {Name, Str(0, 0), Str(1, 0), V("int", 1)}

\* One factory call: op and args name it, r is its result.  cur is the
\* condition made by the latest call that returned one.
Built(op, args, r) ==
    /\ cond.pc = "cond"
    /\ cond.n < MaxBuilt
    /\ cond' = [cond EXCEPT !.n = @ + 1,
                            !.cur = IF r.raised THEN @ ELSE r.obj,
                            !.last = [op |-> op, args |-> args, raised |-> r.raised,
                                      obj |-> r.obj]]
    /\ UNCHANGED <<poolvars, closing, wire, qb, config, handshake>>

CallZTAND == \E a \in ListArgs : Built(AND, <<a>>, ZTAND(a))
CallZTOR == \E a \in ListArgs : Built(OR, <<a>>, ZTOR(a))
CallZTEQUAL == \E a \in Firsts, b \in Seconds : Built(EQUAL, <<a, b>>, ZTEQUAL(a, b))
CallZTIN == \E k \in {Name, Str(0, 0)}, a \in ListArgs : Built(IN_, <<k, a>>, ZTIN(k, a))
CallZTADD == \E a \in ListArgs : Built(ADD, <<a>>, ZTADD(a))
CallZTSUB == \E a \in ListArgs : Built(SUB, <<a>>, ZTSUB(a))
CallZTMUL == \E a \in ListArgs : Built(MUL, <<a>>, ZTMUL(a))
CallZTDIV == \E a \in Firsts, b \in Seconds : Built(DIV, <<a, b>>, ZTDIV(a, b))
CallZTMOD == \E a \in Firsts, b \in Seconds : Built(MOD, <<a, b>>, ZTMOD(a, b))
CallZTGT == \E a \in ListArgs : Built(GT, <<a>>, ZTGT(a))
CallZTGTE == \E a \in ListArgs : Built(GTE, <<a>>, ZTGTE(a))
CallZTLT == \E a \in ListArgs : Built(LT, <<a>>, ZTLT(a))
CallZTLTE == \E a \in ListArgs : Built(LTE, <<a>>, ZTLTE(a))
CallZTCONTAINS == \E f \in StringArgs, v \in StringArgs :
    Built(CONTAINS, <<f, v>>, ZTCONTAINS(f, v))
CallZTICONTAINS == \E f \in StringArgs, v \in StringArgs :
    Built(ICONTAINS, <<f, v>>, ZTICONTAINS(f, v))
CallZTSTARTSWITH == \E f \in StringArgs, v \in StringArgs :
    Built(STARTSWITH, <<f, v>>, ZTSTARTSWITH(f, v))
CallZTISTARTSWITH == \E f \in StringArgs, v \in StringArgs :
    Built(ISTARTSWITH, <<f, v>>, ZTISTARTSWITH(f, v))
CallZTENDSWITH == \E f \in StringArgs, v \in StringArgs :
    Built(ENDSWITH, <<f, v>>, ZTENDSWITH(f, v))
CallZTIENDSWITH == \E f \in StringArgs, v \in StringArgs :
    Built(IENDSWITH, <<f, v>>, ZTIENDSWITH(f, v))

CondInit ==
    /\ PoolInit
    /\ wire = WireIdle
    /\ qb = QbIdle
    /\ config = ConfigIdle
    /\ handshake = HandshakeIdle
    /\ cond = [pc |-> "cond", n |-> 0, cur |-> NoCond,
               last |-> [op |-> "", args |-> <<>>, raised |-> FALSE, obj |-> NoCond]]

CondNext ==
    \/ CallZTAND
    \/ CallZTOR
    \/ CallZTEQUAL
    \/ CallZTIN
    \/ CallZTADD
    \/ CallZTSUB
    \/ CallZTMUL
    \/ CallZTDIV
    \/ CallZTMOD
    \/ CallZTGT
    \/ CallZTGTE
    \/ CallZTLT
    \/ CallZTLTE
    \/ CallZTCONTAINS
    \/ CallZTICONTAINS
    \/ CallZTSTARTSWITH
    \/ CallZTISTARTSWITH
    \/ CallZTENDSWITH
    \/ CallZTIENDSWITH

CondSpec == CondInit /\ [][CondNext]_vars

\* ---- configuration: ZTeraDBConfig, Options and the pool's constructor ----

\* a key that the connection_pool dictionary does not have
Absent == V("absent", 0)

\* values of "min" and "max" in connection_pool: -1, 0, 1, 2, True, 2.5,
\* None, or no such key
PoolValues ==
    {V("int", -1), V("int", 0), V("int", 1), V("int", 2), V("bool", 1), V("float", 2),
     NoneValue, Absent}

\* Options(connection_pool={...}), or options=None (given FALSE)
OptionsGiven == {[given |-> TRUE, min |-> a, max |-> b] : a \in PoolValues, b \in PoolValues}
NoOptions == [given |-> FALSE, min |-> Absent, max |-> Absent]

\* the ZTeraDBConfig objects looked at: client_key "c" or "", the other
\* fields valid
Configs ==
    {[client_key |-> k, options |-> o] :
        k \in {Str(1, 1), Str(0, 0)}, o \in OptionsGiven \cup {NoOptions}}

\* connection_pool.get(key, None)
get(v) == IF v = Absent THEN NoneValue ELSE v

\* Options.is_valid_connection_pool: TRUE when it raises ValueError
is_valid_connection_pool_raises(o) ==
    LET min_connection == get(o.min)
        max_connection == get(o.max)
    IN \/ bool_of(min_connection) /\ ~isinstance_int(min_connection)
       \/ bool_of(max_connection) /\ ~isinstance_int(max_connection)
       \/ /\ bool_of(min_connection) /\ bool_of(max_connection)
          /\ min_connection.n > max_connection.n

\* ZTeraDBConfig.is_valid: TRUE when it raises ValueError (is_valid_client_key,
\* then is_valid_options_type_key -> Options.is_valid)
is_valid_raises(zteradb_conf) ==
    \/ zteradb_conf.client_key.t # "str" \/ zteradb_conf.client_key.n = 0
    \/ zteradb_conf.options.given /\ is_valid_connection_pool_raises(zteradb_conf.options)

\* set_min_max_connections on min_connections = max_connections = 0
set_min_max_connections(zteradb_conf) ==
    LET o == zteradb_conf.options
    IN IF ~o.given THEN [raised |-> "", min_connections |-> V("int", 0), max_connections |-> V("int", 0)]
       ELSE IF o.min = Absent \/ o.max = Absent
            THEN [raised |-> "KeyError", min_connections |-> V("int", 0), max_connections |-> V("int", 0)]
            ELSE [raised |-> "",
                  min_connections |-> IF bool_of(o.min) THEN o.min ELSE V("int", 0),
                  max_connections |-> IF bool_of(o.max) THEN o.max ELSE V("int", 0)]

\* ZTeraDBConnectionManager.__init__ in three steps.  pc: "new", "valid"
\* (configuration, host and port accepted), "sized" (min and max set),
\* "started" (_async_init scheduled), "failed" (the constructor raised)
ManagerValidate ==
    /\ config.pc = "new"
    /\ config' = IF is_valid_raises(config.zteradb_conf)
                 THEN [config EXCEPT !.pc = "failed", !.raised = "ValueError"]
                 ELSE IF config.host.t # "str" \/ config.host.strip = 0
                      THEN [config EXCEPT !.pc = "failed", !.raised = "Exception"]
                      ELSE [config EXCEPT !.pc = "valid"]
    /\ UNCHANGED <<poolvars, closing, wire, qb, cond, handshake>>

ManagerSetMinMax ==
    /\ config.pc = "valid"
    /\ LET r == set_min_max_connections(config.zteradb_conf)
       IN config' = IF r.raised # ""
                    THEN [config EXCEPT !.pc = "failed", !.raised = r.raised]
                    ELSE [config EXCEPT !.pc = "sized",
                                        !.min_connections = r.min_connections,
                                        !.max_connections = r.max_connections]
    /\ UNCHANGED <<poolvars, closing, wire, qb, cond, handshake>>

\* asyncio.ensure_future(self._async_init()): from here on sessions are opened
ManagerStart ==
    /\ config.pc = "sized"
    /\ config' = [config EXCEPT !.pc = "started"]
    /\ UNCHANGED <<poolvars, closing, wire, qb, cond, handshake>>

ConfigInit ==
    /\ PoolInit
    /\ wire = WireIdle
    /\ qb = QbIdle
    /\ cond = CondIdle
    /\ config \in {[pc |-> "new", zteradb_conf |-> c, host |-> h, raised |-> "",
                    min_connections |-> V("int", 0), max_connections |-> V("int", 0)] :
                      c \in Configs, h \in {Str(1, 1), Str(0, 0)}}
    /\ handshake = HandshakeIdle

ConfigNext ==
    \/ ManagerValidate
    \/ ManagerSetMinMax
    \/ ManagerStart

ConfigSpec == ConfigInit /\ [][ConfigNext]_vars

\* ---- authentication: the CONNECT request and the judgement of its response ----

MaxHandshakes == 2      \* handshakes made one after the other with the same configuration

\* ZTeraDBClientAuth.generate_auth_request: the nonce drawn by
\* generate_nonce and the token made of the secret key and that nonce
generate_auth_request(nonce) ==
    [nonce |-> nonce, request_token |-> generate_request_token(secret_key, nonce)]

\* no handshake made yet.  n: handshakes begun; request: the CONNECT request
\* of the current one; resp and verdict: the response read for it and what
\* connect() made of it; seen: the responses of the earlier handshakes,
\* which whoever listened on the network has
AuthInit ==
    /\ PoolInit
    /\ wire = WireIdle
    /\ qb = QbIdle
    /\ cond = CondIdle
    /\ config = ConfigIdle
    /\ handshake = [pc |-> "new", n |-> 0, request |-> NoAuth, resp |-> NoFrame,
                    verdict |-> "none", seen |-> {}]

\* connect() sends its request: generate_nonce draws the nonce
AuthRequest ==
    /\ handshake.pc \in {"new", "judged"}
    /\ handshake.n < MaxHandshakes
    /\ \E nonce \in Nonces :
          handshake' = [pc |-> "sent", n |-> handshake.n + 1,
                        request |-> generate_auth_request(nonce),
                        resp |-> NoFrame, verdict |-> "none",
                        seen |-> IF handshake.pc = "judged"
                                 THEN handshake.seen \cup {handshake.resp}
                                 ELSE handshake.seen]
    /\ UNCHANGED <<poolvars, closing, wire, qb, cond, config>>

\* connect() reads a response, from the server or from whoever answers in
\* its place, and judges it
AuthResponse ==
    /\ handshake.pc = "sent"
    /\ \E f \in HandshakeFrames \cup handshake.seen :
          handshake' = [handshake EXCEPT !.pc = "judged", !.resp = f,
                                         !.verdict = connect_verdict(f)]
    /\ UNCHANGED <<poolvars, closing, wire, qb, cond, config>>

AuthNext ==
    \/ AuthRequest
    \/ AuthResponse

AuthSpec == AuthInit /\ [][AuthNext]_vars

\* ---- get_connection and release_connection called on their own ----

MaxQueue == 4           \* entries the queue holds before the application stops releasing

\* a session whose connect() returned True
ReadySession ==
    [NewSession(None) EXCEPT !.phase = "idle", !.server_auth = "creds", !.writer = "open",
                             !.result = "conn", !.verified = TRUE]

\* every session has been made by get_connection on an empty queue and is
\* in the hands of the application; caller[1] keeps the last call made:
\* pc its name, conn what get_connection returned, rel what
\* release_connection was given
PoolOpsInit ==
    /\ sess = [s \in Sessions |-> ReadySession]
    /\ stream = [s \in Sessions |-> <<>>]
    /\ connections = <<>>
    /\ nsess = Cardinality(Sessions)
    /\ pw = [pc |-> "init", tasks |-> <<>>]
    /\ caller = [c \in Callers |-> CallerInit]
    /\ closing = ClosingInit
    /\ wire = WireIdle
    /\ qb = QbIdle
    /\ cond = CondIdle
    /\ config = ConfigIdle
    /\ handshake = HandshakeIdle

\* get_connection() on a queue that is not empty
GetConnection ==
    /\ get_connection_source(connections, nsess) = "queue"
    /\ caller' = [caller EXCEPT ![1].pc = "get_connection",
                                ![1].conn = Head(connections), ![1].rel = <<>>]
    /\ connections' = get_connection_rest(connections)
    /\ UNCHANGED <<sess, stream, nsess, pw, closing, purevars>>

\* release_connection(connection) with a session or with None
ReleaseConnection ==
    /\ Len(connections) < MaxQueue
    /\ \E connection \in Sessions \cup {None} :
          /\ caller' = [caller EXCEPT ![1].pc = "release_connection",
                                      ![1].conn = None, ![1].rel = <<connection>>]
          /\ connections' = release_connection(connections, connection)
    /\ UNCHANGED <<sess, stream, nsess, pw, closing, purevars>>

PoolOpsNext ==
    \/ GetConnection
    \/ ReleaseConnection

PoolOpsSpec == PoolOpsInit /\ [][PoolOpsNext]_vars

\* ---- what the properties speak of ----

InFifo(s) == \E i \in 1..Len(connections) : connections[i] = s

FifoCount(s) == Cardinality({i \in 1..Len(connections) : connections[i] = s})

\* get_connection gave session s to caller c and c has not released it
Holds(c, s) ==
    /\ caller[c].pc \notin {"idle", "connecting"}
    /\ caller[c].conn = s
    /\ caller[c].rel = <<>>

\* get_connection has returned to caller c
Acquired(c) == caller[c].pc \notin {"idle", "connecting"}

IsResponse(f) == f.typ = "json"

IsTerminator(f) == IsResponse(f) /\ f.response_code = QUERY_COMPLETE

\* the number of frames of g before its first QUERY_COMPLETE frame
BeforeTerminator(g) ==
    IF \E i \in 1..Len(g) : IsTerminator(g[i])
    THEN (CHOOSE i \in 1..Len(g) :
             IsTerminator(g[i]) /\ \A j \in 1..(i - 1) : ~IsTerminator(g[j])) - 1
    ELSE Len(g)

DataOf(g, k) == [i \in 1..k |-> g[i].data]

\* the iteration of caller c gave the data of every frame before the
\* terminator, in order; with the terminator read it ended and read nothing
\* more; without it, it has not ended
YieldsUpToTerminator(c) ==
    LET g == caller[c].got
        k == BeforeTerminator(g)
    IN /\ caller[c].yielded = DataOf(g, k)
       /\ k < Len(g) => /\ Len(g) = k + 1
                        /\ caller[c].pc = "done"
                        /\ caller[c].outcome = "ended"
       /\ k = Len(g) => caller[c].outcome # "ended"

\* ---- C1 ----
\* C1: in every reachable state no session is held by two callers, no session
\* is both held by a caller and idle in the FIFO, and no session is in the
\* FIFO more than once.
C1_PoolExclusive ==
    \A s \in Sessions :
        /\ Cardinality({c \in Callers : Holds(c, s)}) <= 1
        /\ (\E c \in Callers : Holds(c, s)) => ~InFifo(s)
        /\ FifoCount(s) <= 1

\* a session released by one caller is held by another while a second
\* session is idle in the FIFO
C1_Reused ==
    \E c1, c2 \in Callers, s, s2 \in Sessions :
        /\ c1 # c2
        /\ caller[c1].rel = <<s>>
        /\ Holds(c2, s)
        /\ InFifo(s2)

\* ---- C2 ----
ErrorOutcomes == {"ZTeraBaseError", "TimeoutError", "JSONDecodeError", "ZTeraDBQueryError"}

\* C2: when run() or the iteration has ended with an error (error frame, read
\* timeout, decode failure, query rendering failure) after get_connection
\* gave a session, release_connection was called exactly once.
C2_ReleasedOnceOnError ==
    \A c \in Callers :
        (/\ caller[c].pc = "done"
         /\ caller[c].conn # None
         /\ caller[c].outcome \in ErrorOutcomes)
        => Len(caller[c].rel) = 1

\* ---- C3 ----
\* C3: once run() of an insert, update or delete has returned its single
\* result, the session it used is eventually idle in the FIFO again.
\* (Only release_connection puts a session back, and only the task that
\* holds the session calls it; a task whose run() has returned takes no
\* further step on that session.)
C3_ReturnedThenIdle ==
    \A c \in Callers :
        (caller[c].outcome = "returned") ~> InFifo(caller[c].conn)

\* ---- C4 ----
\* C4: every session get_connection hands to a caller is one whose handshake
\* succeeded (no error, token proved).
C4_HandedOutAuthenticated ==
    \A c \in Callers :
        (Acquired(c) /\ caller[c].conn # None) => sess[caller[c].conn].verified

\* ---- C5 ----
\* C5: every entry of the FIFO is a non-null session that is connected and
\* authenticated.
C5_FifoEntriesUsable ==
    \A i \in 1..Len(connections) :
        /\ connections[i] # None
        /\ sess[connections[i]].is_connected
        /\ sess[connections[i]].server_auth # "None"

\* ---- C6 ----
\* C6: a session has adopted server_auth (is Ready) only if the handshake
\* response had error = false and its client_auth.request_token equals the
\* hash of secret_key and the nonce in client_auth.
C6_ReadyOnlyIfProved ==
    \A s \in Sessions : sess[s].server_auth # "None" => sess[s].verified

\* one session is Ready while another one, whose handshake response did not
\* prove the token, was returned by connect without server_auth
C6_ReadyAndRejected ==
    \E s1, s2 \in Sessions :
        /\ sess[s1].server_auth # "None"
        /\ sess[s2].phase = "idle"
        /\ sess[s2].server_auth = "None"
        /\ ~sess[s2].verified

C8_ErrorFrameRaises ==
    \A c \in Callers :
        \A i \in 1..Len(caller[c].got) :
            (IsResponse(caller[c].got[i]) /\ caller[c].got[i].error) =>
                /\ i = Len(caller[c].got)
                /\ caller[c].pc = "done"
                /\ caller[c].outcome = "ZTeraBaseError"
                /\ caller[c].errmsg = caller[c].got[i].data
                /\ caller[c].yielded = DataOf(caller[c].got, i - 1)

\* a select was given a row and then read an error frame
C8_ErrorAfterRow ==
    \E c \in Callers :
        /\ Len(caller[c].got) >= 2
        /\ caller[c].got[Len(caller[c].got)].error
        /\ Len(caller[c].yielded) = Len(caller[c].got) - 1

\* ---- C9 ----
\* C9: after a short read, or a frame whose payload cannot be decoded, in the
\* response loop, the session is disconnected with its stream closed and the
\* caller has received an error, not a clean end.
C9_BrokenFrameFatal ==
    \A c \in Callers :
        (\/ caller[c].fault = "short"
         \/ /\ caller[c].got # <<>>
            /\ caller[c].got[Len(caller[c].got)].typ = "garbage")
        => /\ ~sess[caller[c].conn].is_connected
           /\ sess[caller[c].conn].writer = "closed"
           /\ caller[c].outcome \notin {"none", "ended", "returned"}

\* ---- C10 ----
\* C10: when a read of the response loop has exceeded query_timeout, the
\* caller has a timeout error and the session is Closed: is_connected is
\* false and the writer is shut down.
C10_TimeoutCloses ==
    \A c \in Callers :
        caller[c].outcome = "TimeoutError" =>
            /\ ~sess[caller[c].conn].is_connected
            /\ sess[caller[c].conn].writer = "closed"

\* ---- C11 ----
\* C11: a session on which a read of the response loop timed out is not in
\* the FIFO and no other caller holds it.
C11_TimedOutNotRequeued ==
    \A c \in Callers :
        caller[c].outcome = "TimeoutError" =>
            /\ ~InFifo(caller[c].conn)
            /\ \A c2 \in Callers \ {c} : ~Holds(c2, caller[c].conn)

\* a read timed out after a frame of the response was read, and the other
\* caller has acquired since
C11_TimedOutMidStream ==
    \E c \in Callers :
        /\ caller[c].outcome = "TimeoutError"
        /\ caller[c].got # <<>>
        /\ \E c2 \in Callers \ {c} : Acquired(c2) /\ caller[c2].conn # None

\* ---- C12 ----
\* C12: get_connection returns normally from establishing a new session
\* only if the handshake of that session succeeded; when the TCP open fails,
\* the server rejects the handshake, the token does not match or the
\* handshake read times out, it does not return normally.
C12_EstablishFailureSurfaces ==
    [][\A c \in Callers :
          (caller[c].pc = "connecting" /\ caller'[c].pc # "connecting") =>
              /\ caller'[c].conn # None
              /\ sess'[caller'[c].conn].verified]_vars

C14_CloseDrains ==
    closing.pc \in {"done", "raised"} =>
        /\ \A i \in 1..Len(closing.left) : closing.left[i] = None
        /\ \A s \in closing.taken : ~sess[s].is_connected /\ sess[s].writer # "open"

\* ---- C15 ----
\* C15: once prewarm has completed and while no caller has acquired, the
\* FIFO holds at least min_connections entries, and the first get_connection
\* after that takes the head entry and constructs no new session.
C15_PrewarmedFirst ==
    [][(pw.pc = "done" /\ \A c \in Callers : caller[c].pc \in {"idle", "connecting"}) =>
          /\ Len(connections) >= MinConnections
          /\ \A c \in Callers :
                (caller[c].pc = "idle" /\ caller'[c].pc # "idle" /\ MinConnections > 0) =>
                    /\ nsess' = nsess
                    /\ caller'[c].pc # "connecting"
                    /\ caller'[c].conn = Head(connections)]_vars

\* a caller was handed a prewarmed session: no session but the prewarmed
\* ones was constructed
C15_TookPrewarmed ==
    /\ MinConnections > 0
    /\ pw.pc = "done"
    /\ nsess = MinConnections
    /\ \E c \in Callers : Acquired(c) /\ caller[c].conn # None

\* ---- C16 ----
\* C16: a payload of at most 65,535 bytes that was framed by pack and has
\* arrived whole is what one read returns, and that read consumes exactly
\* the bytes of the frame: what is left is what followed the frame.
C16_FrameRoundTrip ==
    (BLen(wire.payload) <= MaxPayload /\ wire.pc \in {"read", "read_none"}
        /\ wire.lost <= BLen(wire.after)) =>
        /\ wire.pc = "read"
        /\ Norm(wire.result) = Norm(wire.payload)
        /\ Norm(wire.bytes) = Norm(Take(wire.after, BLen(wire.after) - wire.lost))

\* the longest payload was read back from a stream that holds a second frame
C16_LongestRead ==
    /\ wire.pc = "read"
    /\ BLen(wire.payload) = MaxPayload
    /\ BLen(wire.after) > 1
    /\ BLen(wire.result) = MaxPayload

\* ---- the query builder ----

\* the code of a kind-setting call
CodeOf(op) ==
    CASE op = "insert" -> INSERT
      [] op = "select" -> SELECT
      [] op = "update" -> UPDATE
      [] op = "delete" -> DELETE

\* C17: generate() fails exactly when none of insert/select/update/delete
\* has been called on the query since it was made; otherwise the qt it
\* renders is the code of the latest of these calls.
C17_KindLastWins ==
    qb.pc = "query" =>
        /\ generate_error(qb.q) <=> qb.kindcall = ""
        /\ ~generate_error(qb.q) =>
              /\ "qt" \in DOMAIN generate(qb.q)
              /\ generate(qb.q).qt = CodeOf(qb.kindcall)

\* a second kind-setting call has replaced the kind of an earlier one
C17_KindReplaced ==
    /\ qb.pc = "query"
    /\ qb.last.op \in KindCalls
    /\ qb.last.before.query_type # None
    /\ qb.last.before.query_type # CodeOf(qb.last.op)
    /\ generate(qb.q).qt = CodeOf(qb.last.op)

\* the optional keys of the rendered dictionary
OptionalKeys == {"fl", "fi", "fc", "rf", "st", "lt", "cnt"}

\* what the object has accumulated for an optional key: it is there
\* (non-empty, or true for cnt), and the value it is rendered as
Accumulated(q, k) ==
    CASE k = "fl" -> [there |-> DOMAIN q.fields # {}, value |-> q.fields]
      [] k = "fi" -> [there |-> DOMAIN q.filters # {}, value |-> q.filters]
      [] k = "fc" -> [there |-> Len(q.filter_conditions) > 0, value |-> q.filter_conditions]
      [] k = "rf" -> [there |-> DOMAIN q.related_fields # {}, value |-> q.related_fields]
      [] k = "st" -> [there |-> Len(q.sort) > 0, value |-> get_sort(q)]
      [] k = "lt" -> [there |-> Len(q.limit) > 0, value |-> q.limit]
      [] k = "cnt" -> [there |-> q.count, value |-> TRUE]

\* C18: the dictionary generate() returns has an optional key exactly when
\* the member accumulated for it is non-empty (true, for cnt), with that
\* member's value; no key carries an empty map, list or tuple, or FALSE.
C18_OptionalKeyIffAccumulated ==
    (qb.pc = "query" /\ ~generate_error(qb.q)) =>
        \A k \in OptionalKeys :
            /\ k \in DOMAIN generate(qb.q) <=> Accumulated(qb.q, k).there
            /\ k \in DOMAIN generate(qb.q) =>
                  /\ generate(qb.q)[k] = Accumulated(qb.q, k).value
                  /\ IF k = "cnt" THEN generate(qb.q)[k] ELSE DOMAIN generate(qb.q)[k] # {}

\* a query rendered with some optional keys and without the others
C18_SomeKeysOnly ==
    /\ qb.pc = "query"
    /\ ~generate_error(qb.q)
    /\ DOMAIN generate(qb.q) \cap OptionalKeys = {"fi", "lt"}
    /\ generate(qb.q).lt[2].n = 2

\* C19: the stored limit is the pair of the latest limit() call whose
\* arguments were both integers with start >= 0 and end > start; every
\* other limit() call raises and leaves the stored limit as it was.
C19_LimitIsLatestInRange ==
    qb.pc = "query" =>
        /\ qb.q.limit = qb.lim
        /\ qb.last.op = "limit" =>
              /\ qb.last.raised <=> ~InRange(qb.last.arg)
              /\ qb.last.raised => qb.q.limit = qb.last.before.limit

\* limit(k, k) was refused after a limit had been stored, which is kept
C19_RefusedKeepsLimit ==
    /\ qb.pc = "query"
    /\ qb.last.op = "limit"
    /\ qb.last.raised
    /\ qb.last.arg[1] = qb.last.arg[2]
    /\ qb.last.arg[1].t = "int"
    /\ qb.last.arg[1].n > 0
    /\ Len(qb.q.limit) = 2
    /\ qb.q.limit = qb.lim

\* a mapping, a sequence, a set or a callable, empty or not
IsCollectionOrCallable(v) == v.t \in {"dict", "list", "tuple", "set", "function"}

\* C20: fields() and filter() raise for every call with a value that is a
\* mapping, a sequence, a set or a callable, empty ones too, and accept
\* scalar values; filter() accepts None as well, fields() raises for it.
C20_CollectionsRefused ==
    qb.pc = "query" =>
        /\ qb.last.op = "fields" =>
              (qb.last.raised <=>
                  \E i \in DOMAIN qb.last.arg :
                      IsCollectionOrCallable(qb.last.arg[i].v) \/ qb.last.arg[i].v = NoneValue)
        /\ qb.last.op = "filter" =>
              (qb.last.raised <=>
                  \E i \in DOMAIN qb.last.arg : IsCollectionOrCallable(qb.last.arg[i].v))

\* ---- filter conditions ----

\* the latest factory call returned a condition
Constructed == cond.pc = "cond" /\ cond.n > 0 /\ ~cond.last.raised

\* the dictionary the latest factory call rendered
LastDict == cond.last.obj.filters[1]

ListFactories == {ADD, SUB, MUL, GT, GTE, LT, LTE, AND, OR}

\* the operands of the latest factory call, each with what stands at its
\* position in the rendered dictionary
OperandPairs ==
    CASE cond.last.op \in ListFactories ->
            {<<cond.last.args[1].items[i], LastDict.operand.items[i]>> :
                i \in DOMAIN cond.last.args[1].items}
      [] cond.last.op \in {DIV, MOD} ->
            {<<cond.last.args[i], LastDict.operand.items[i]>> : i \in 1..2}
      [] cond.last.op = EQUAL ->
            {<<cond.last.args[1], LastDict.operand>>, <<cond.last.args[2], LastDict.result>>}
      [] cond.last.op = IN_ ->
            {<<cond.last.args[2].items[i], LastDict.result.items[i]>> :
                i \in DOMAIN cond.last.args[2].items}
      [] OTHER -> {}

\* C21: where an operand of a condition factory is itself a condition, the
\* rendered dictionary of the outer condition has the child's rendered
\* dictionary at that operand's position, not the condition object.
C21_ChildInlined ==
    Constructed =>
        \A pr \in OperandPairs :
            pr[1].t = "ZTeraDBFilterCondition" => pr[2] = get_fields(pr[1])

\* a sequence with at least one element, none of them a mapping, a set or
\* a callable
IsOperandList(v) ==
    /\ v.t \in {"list", "tuple"}
    /\ Len(v.items) >= 1
    /\ \A i \in DOMAIN v.items :
          v.items[i].t \notin {"dict", "set", "function", "builtin_function_or_method"}

\* C22: ADD, SUB and MUL accept their argument exactly when it is a
\* sequence of at least one element with no mapping, set or callable among
\* them; no arithmetic condition is made with an empty operand list.
C22_ArithmeticOperandsChecked ==
    (cond.pc = "cond" /\ cond.last.op \in {ADD, SUB, MUL}) =>
        /\ ~cond.last.raised <=> IsOperandList(cond.last.args[1])
        /\ ~cond.last.raised => Len(LastDict.operand.items) >= 1

\* v is a condition made by ZTAND or ZTOR
IsGroup(v) ==
    /\ v.t = "ZTeraDBFilterCondition"
    /\ Len(v.filters) = 1
    /\ v.filters[1].operator \in {AND, OR}

\* C23: the list an AND/OR condition renders has the length and the order
\* of the children given; a child that is itself an AND or OR is one nested
\* node at its position, with its own children inside it.
C23_TreeShapeKept ==
    (Constructed /\ cond.last.op \in {AND, OR}) =>
        LET children == cond.last.args[1].items
            out == LastDict.operand.items
        IN /\ LastDict.operator = cond.last.op
           /\ Len(out) = Len(children)
           /\ \A i \in DOMAIN children :
                 /\ children[i].t = "ZTeraDBFilterCondition" => out[i] = children[i].filters[1]
                 /\ children[i].t # "ZTeraDBFilterCondition" => out[i] = children[i]
                 /\ IsGroup(children[i]) =>
                       /\ out[i].operator = children[i].filters[1].operator
                       /\ out[i].operand.items = children[i].filters[1].operand.items

\* an OR of a condition and an AND of two children has been rendered
C23_GroupInGroup ==
    /\ Constructed
    /\ cond.last.op = OR
    /\ Len(cond.last.args[1].items) = 2
    /\ cond.last.args[1].items[1] = Leaf
    /\ IsGroup(cond.last.args[1].items[2])
    /\ cond.last.args[1].items[2].filters[1].operator = AND
    /\ Len(cond.last.args[1].items[2].filters[1].operand.items) = 2
    /\ Len(LastDict.operand.items) = 2

\* C24: MOD is accepted only with a denominator greater than 0; a zero and
\* a negative denominator are both refused at construction.
C24_ModDenominatorPositive ==
    (Constructed /\ cond.last.op = MOD /\ cond.last.args[2].t = "int") =>
        cond.last.args[2].n > 0

StringFactories == {CONTAINS, ICONTAINS, STARTSWITH, ISTARTSWITH, ENDSWITH, IENDSWITH}

\* a str of at least one character
IsNonEmptyString(v) == v.t = "str" /\ v.n > 0

\* C25: a string-match factory raises unless field and value are both
\* non-empty strings; when it returns, the condition renders exactly
\* operator = the factory's code, operand = field, result = value.
C25_StringMatchChecked ==
    (cond.pc = "cond" /\ cond.last.op \in StringFactories) =>
        /\ ~(IsNonEmptyString(cond.last.args[1]) /\ IsNonEmptyString(cond.last.args[2]))
              => cond.last.raised
        /\ ~cond.last.raised =>
              /\ cond.last.obj.filters = <<LastDict>>
              /\ LastDict = [t |-> "dict", operator |-> cond.last.op,
                             operand |-> cond.last.args[1], result |-> cond.last.args[2]]

\* ZTIENDSWITH("a", "a"), called second, has returned a condition
C25_StringMatchMade ==
    /\ Constructed
    /\ cond.last.op = IENDSWITH
    /\ cond.n = 2
    /\ cond.cur = cond.last.obj
    /\ cond.last.args = <<Name, Name>>

\* ---- configuration ----

\* the pool's constructor has returned a pool
PoolConstructed == config.pc = "started"

\* the connection_pool given has a max that is less than its min
MaxBelowMin ==
    /\ config.zteradb_conf.options.given
    /\ IsInteger(config.zteradb_conf.options.min)
    /\ IsInteger(config.zteradb_conf.options.max)
    /\ config.zteradb_conf.options.max.n < config.zteradb_conf.options.min.n

\* C26: with a connection_pool whose max is less than its min the pool's
\* constructor fails with a configuration error before it opens a session;
\* every pool constructed has min_connections <= max_connections.
C26_MinAtMostMax ==
    /\ (config.pc \notin {"none", "new"} /\ MaxBelowMin) =>
          config.pc = "failed" /\ config.raised = "ValueError"
    /\ PoolConstructed => config.min_connections.n <= config.max_connections.n

\* ---- one query per session ----

\* the frames caller c has read for its query on session s, when the loop
\* of that query released the session
ReleasedByLoop(c) ==
    /\ caller[c].pc = "done"
    /\ caller[c].outcome \in {"ended", "StopAsyncIteration"}
    /\ caller[c].rel # <<>>

\* C27: the response loop releases a session only after it has read the
\* QUERY_COMPLETE frame of its query; so no session in the FIFO, and no
\* session a request is written on, has frames of an earlier query still to
\* be read, and no caller is given a frame of another caller's query.
C27_OneQueryInFlight ==
    /\ \A c \in Callers :
          ReleasedByLoop(c) =>
              /\ caller[c].got # <<>>
              /\ IsTerminator(caller[c].got[Len(caller[c].got)])
    /\ \A s \in Sessions : InFifo(s) => stream[s] = <<>>
    /\ \A s \in Sessions : Len(stream[s]) <= 1
    /\ \A c \in Callers : \A i \in 1..Len(caller[c].got) :
          caller[c].got[i].typ = "json" => caller[c].got[i].q = c

\* ---- C28 ----
\* C28: a QUERY request is written only on a session whose handshake was
\* verified, and it carries the client_key and the access_token of the
\* credentials the session adopted in that handshake.
C28_QueryCarriesAdoptedToken ==
    \A s \in Sessions : \A i \in 1..Len(stream[s]) :
        /\ sess[s].verified
        /\ sess[s].server_auth # "None"
        /\ stream[s][i].token.client_key = <<"client_key", sess[s].server_auth>>
        /\ stream[s][i].token.access_token = <<"access_token", sess[s].server_auth>>

\* a second caller's request has been written on a session that the first
\* caller used and released
C28_SecondRequestWritten ==
    \E s \in Sessions :
        /\ stream[s] # <<>>
        /\ stream[s][Len(stream[s])].q = 2
        /\ stream[s][Len(stream[s])].n = 0
        /\ caller[1].conn = s
        /\ caller[1].rel = <<s>>
        /\ caller[1].outcome = "ended"

\* ---- C29 ----
\* C29: Closed is terminal: a session on which close() has run (its writer
\* is shut down and nothing has opened a new one) is not connected, whatever
\* ran on it afterwards.
C29_ClosedStaysClosed ==
    \A s \in Sessions :
        (sess[s].phase = "idle" /\ sess[s].writer = "closed") => ~sess[s].is_connected

\* ---- C30 ----
\* the sessions that get_new_connection returned and that are still connected
LiveSessions == {s \in Sessions : sess[s].phase = "idle" /\ sess[s].is_connected}

C31_QueueDiscipline ==
    [][/\ caller'[1].pc = "get_connection" =>
            /\ connections # <<>>
            /\ caller'[1].conn = Head(connections)
            /\ connections' = Tail(connections)
            /\ nsess' = nsess
            /\ sess' = sess
       /\ caller'[1].pc = "release_connection" =>
            LET connection == caller'[1].rel[1] IN
            /\ connection # None => /\ Len(connections') = Len(connections) + 1
                                    /\ SubSeq(connections', 1, Len(connections)) = connections
                                    /\ connections'[Len(connections')] = connection
            /\ connection = None => connections' = connections]_vars

\* release_connection(None) has just been called on a queue of two sessions
C31_NoneReleasedToQueue ==
    /\ caller[1].pc = "release_connection"
    /\ caller[1].rel = <<None>>
    /\ connections = <<2, 1>>

\* ---- C32 ----
\* C32: when send() of a request has failed (an I/O fault on the writer, or
\* a payload above 65535 bytes), the session is closed, it is not put back
\* into the FIFO, and the call ends with an error, not with a clean end or a
\* result.
C32_SendFailureSurfaces ==
    \A c \in Callers :
        caller[c].fault = "send" =>
            /\ ~sess[caller[c].conn].is_connected
            /\ caller[c].rel = <<>>
            /\ ~InFifo(caller[c].conn)
            /\ caller[c].outcome \notin {"ended", "returned"}

\* ---- C33 ----
\* connect() returned True on session s and nothing has closed it since
Ready(s) ==
    /\ sess[s].phase = "idle"
    /\ sess[s].is_connected
    /\ sess[s].server_auth # "None"
    /\ sess[s].writer = "open"

\* caller c is the only caller that get_connection ever gave its session to
OnlyUser(c) ==
    /\ caller[c].conn # None
    /\ \A c2 \in Callers \ {c} : caller[c2].conn # caller[c].conn

Connecting(s) == sess[s].phase \in {"open", "read1", "read2"}

\* C34: with connect_timeout set every connect() ends, with the session
\* returned or with an error, whatever the server sends or fails to send.
C34_ConnectTerminates ==
    \A s \in Sessions : Connecting(s) ~> ~Connecting(s)

\* ---- C35 ----
\* C35: run() with an argument that is no ZTeraDBQuery ends with an error,
\* has put the session it was given back (release_connection called once,
\* with that session) and has neither sent a request nor read a frame.
C35_NotQueryKeepsPool ==
    \A c \in Callers :
        (/\ Acquired(c)
         /\ caller[c].conn # None
         /\ ~isinstance_ZTeraDBQuery(caller[c].query))
        => /\ caller[c].pc = "done"
           /\ caller[c].outcome \in {"ValueError", "AttributeError"}
           /\ caller[c].rel = <<caller[c].conn>>
           /\ caller[c].got = <<>>

C37_NonceOfRequest ==
    (handshake.pc = "judged" /\ handshake.verdict = "ready")
    => handshake.resp.client_auth.nonce = handshake.request.nonce

\* ---- C38 ----
\* C38: what the parent renders under rf[r] is the dictionary the child
\* rendered when related_field(r=child) was called, whatever was called on
\* the child afterwards.
C38_ChildSnapshot ==
    (qb.pc = "related" /\ qb.linked)
    => Reads(qb.parent.related_fields["r"], qb.child) = qb.parent.related_fields["r"]

\* ---- C39 ----
\* C39: a fields() or filter() call that raised has left the query's fields
\* and filters as they were before the call: no pair of the refused call was
\* merged.
C39_RefusedCallMergesNothing ==
    (qb.pc = "query" /\ qb.last.op \in {"fields", "filter"} /\ qb.last.raised)
    => /\ qb.q.fields = qb.last.before.fields
       /\ qb.q.filters = qb.last.before.filters

\* ---- C40 ----
\* C40: sort() takes an order of 1 or -1 and refuses every other value; an
\* accepted entry is appended after the earlier ones, and get_sort() gives
\* the field the order that was passed.
C40_SortOrderChecked ==
    (qb.pc = "query" /\ qb.last.op = "sort")
    => LET field == qb.last.arg[1]
           order == qb.last.arg[2]
       IN  IF order \in {1, -1}
           THEN /\ ~qb.last.raised
                /\ qb.q.sort = Append(qb.last.before.sort,
                                      [field |-> field, sort_order |-> order])
                /\ get_sort(qb.q)[field] = order
           ELSE /\ qb.last.raised
                /\ qb.q = qb.last.before

====
